---------------------------- MODULE Spec2Model ----------------------------
(***************************************************************************)
(* Bodhi serving runtime.                                                  *)
(*                                                                         *)
(* Part 1 (Spec): one POST /v1/chat/completions request, from the point    *)
(* where chat_completions_handler has created the chunk channel and        *)
(* spawned the pipeline task, with the engine callback that bridges the    *)
(* native engine to the channel. FairSpec is the streaming request and     *)
(* NonStreamFairSpec the non-streaming request under fair scheduling.      *)
(*                                                                         *)
(* Part 2 (SmcSpec): the shared model context that owns the live engine,   *)
(* called by concurrent tasks. EqualReloadSpec restricts it to reloads     *)
(* with equal parameters, EnsureSpec to the calls a serving process makes. *)
(*                                                                         *)
(* Part 3 (ServerSpec): the life cycle of the HTTP server, Server::        *)
(* start_new with its ready and shutdown channels and its callback.        *)
(* DrainSpec is the server whose clients close their connections.          *)
(*                                                                         *)
(* Part 4 (ReplSpec): the interactive client, turn by turn. RunSpec is     *)
(* Interactive::execute from its first statement.                          *)
(*                                                                         *)
(* Part 5 (TmplSpec): the prompt renderer, TokenizerConfig::               *)
(* apply_chat_template over a request's messages.                          *)
(*                                                                         *)
(* Part 6 (CmdSpec): the pull and create commands and the calls they make  *)
(* on the hub and data services.                                           *)
(*                                                                         *)
(* Part 7 (DbSpec): the conversation store, DbService::save_conversation.  *)
(* StoreSpec is the store with its messages table, used by concurrent      *)
(* tasks that save, read and delete.                                       *)
(*                                                                         *)
(* Strings are sequences of tokens; the tokens "data: ", "error: " and     *)
(* "\n\n" stand for those literal substrings, every other token for a      *)
(* piece of JSON text.                                                     *)
(***************************************************************************)
EXTENDS Naturals, Sequences, FiniteSets, TLC

\* The number of chunks the engine emits for one completion is unbounded in
\* the program; the model stops the engine after MaxChunks.
MaxChunks == 3

\* Capacity of the chunk channel. The program creates it with capacity 100
\* (routes_chat.rs:20, interactive.rs:118); the model scales it down so that
\* a full channel is reached within MaxChunks chunks.
ChannelCapacity == 1

---------------------------------------------------------------------------
(* Strings                                                                 *)

DataPrefix  == <<"data: ">>
ErrorPrefix == <<"error: ">>
ChunkSuffix == <<"\n\n">>

\* Option<&str>
None == [some |-> FALSE, val |-> <<>>]
Some(s) == [some |-> TRUE, val |-> s]

\* str::starts_with
starts_with(msg, pfx) ==
  /\ Len(msg) >= Len(pfx)
  /\ SubSeq(msg, 1, Len(pfx)) = pfx

\* str::strip_prefix
strip_prefix(msg, pfx) ==
  IF starts_with(msg, pfx)
  THEN Some(SubSeq(msg, Len(pfx) + 1, Len(msg)))
  ELSE None

\* str::strip_suffix
strip_suffix(msg, sfx) ==
  IF /\ Len(msg) >= Len(sfx)
     /\ SubSeq(msg, Len(msg) - Len(sfx) + 1, Len(msg)) = sfx
  THEN Some(SubSeq(msg, 1, Len(msg) - Len(sfx)))
  ELSE None

\* The chunk strings the engine hands to the callback in the model: framed
\* token deltas and an engine error frame, a bare JSON document (what the
\* non-streaming test feeds the handler), a bare document that keeps its
\* trailing blank line, and a frame cut before its terminator.
Payloads == {"a", "b"}
DataChunk(p)  == DataPrefix \o <<p>> \o ChunkSuffix
ErrorChunk(p) == ErrorPrefix \o <<p>> \o ChunkSuffix
FramedChunks  == {DataChunk(p) : p \in Payloads} \cup {ErrorChunk("a")}
Chunks == FramedChunks \cup {<<"a">>, <<"a">> \o ChunkSuffix, DataPrefix \o <<"a">>}

---------------------------------------------------------------------------
(* State of one chat-completion request                                    *)

VARIABLES
  reqStream,   \* request.stream: "absent", "false" or "true"
  pc,          \* position of chat_completions_handler
  pipeline,    \* the spawned task running state.chat_completions(request, tx)
  emitted,     \* chunks the engine callback was invoked with (and returned), in order
  sendTask,    \* per emitted chunk, the task the callback spawned to send it
  queue,       \* buffer of the mpsc channel
  rx,          \* the receiver: "open" or "closed"
  received,    \* chunks taken from the channel by the handler, in order
  message,     \* non-streaming: the first chunk, held while joining the task
  response,    \* what the handler returned
  sse,         \* the SSE body stream: "none", "open", "ended", "panicked", "disconnected"
  events       \* data of the SSE events delivered to the client, in order

chatVars == <<reqStream, pc, pipeline, emitted, sendTask, queue, rx,
              received, message, response, sse, events>>

---------------------------------------------------------------------------
(* State of the shared model context; Tasks are its concurrent callers     *)

\* The number of engines the process initializes over its life is unbounded
\* in the program; the model allows MaxEngines of them.
MaxEngines == 3

Tasks == {"t1", "t2"}

\* GptParams values that differ in a field the engine's identity depends on.
Params == {"P1", "P2"}

VARIABLES
  ctx,         \* the engine held by the context: index into inst, 0 when empty
  gptParams,   \* the stored parameters: None or Some(P)
  inst,        \* every engine instance created so far: [params, state]
  lock,        \* the reader-writer lock: [writer, readers]
  tpc,         \* per task, its position in the operation it runs
  targ,        \* per task, the argument of its reload
  tengine,     \* per task, the engine its completion runs against
  tres         \* per task, the result of its last finished operation

smcVars == <<ctx, gptParams, inst, lock, tpc, targ, tengine, tres>>

---------------------------------------------------------------------------
(* State of the HTTP server's life cycle (Server::start_new)               *)

\* Connections the server accepts over its life: unbounded in the program.
MaxConns == 2

VARIABLES
  srv,         \* position of start_new: "new", "bound", "serving", "closing", "ok", "err"
  sig,         \* the graceful-shutdown future: "waiting", "callback", "done"
  shutdown,    \* the shutdown oneshot channel: "open", "sent", "dropped", "failed"
  readyCount,  \* number of times ready was signalled
  readyRx,     \* what the awaiter of ready_rx got: "waiting", "ok", "closed"
  cbRuns,      \* number of invocations of the on_shutdown callback
  conns,       \* connections in flight
  accepted,    \* connections accepted so far
  listener     \* the TCP listener: "none", "bound", "closed"

srvVars == <<srv, sig, shutdown, readyCount, readyRx, cbRuns, conns, accepted,
             listener>>

---------------------------------------------------------------------------
(* State of the process and of the interactive client                      *)

\* Turns of the interactive client: unbounded in the program.
MaxTurns == 2

VARIABLES
  cmd,         \* the command the process runs: "serve" or "run"
  replPc,      \* position of Interactive::execute
  turn,        \* number of the current turn, 0 before the first
  history,     \* chat_history: messages as [role, turn]
  recvTask,    \* the task process_input spawns to receive the chunks
  request      \* the messages of the request process_input submitted last

replVars == <<cmd, replPc, turn, history, recvTask, request>>

\* "/" in a path; a path is the sequence of its separators and names.
Sep == "/"

VARIABLES
  hfHome,      \* what hf_home() returns
  stopCalls,   \* number of calls of try_stop made by Interactive::execute
  execResult   \* what execute returned: [kind, filename, dirname]

runVars == <<hfHome, stopCalls, execResult>>

---------------------------------------------------------------------------
(* State of the prompt renderer (TokenizerConfig::apply_chat_template)     *)

\* Messages of a request and entries of a named template set: unbounded in
\* the program.
MaxMsgs == 2
MaxTemplates == 2

VARIABLES
  tcConfig,    \* the TokenizerConfig: [chat_template, bos_token, eos_token]
  tcMessages,  \* the request's messages
  tcOut        \* what apply_chat_template did: [kind, err, prompt]

tmplVars == <<tcConfig, tcMessages, tcOut>>

---------------------------------------------------------------------------
(* State of the pull and create commands and of the services they call     *)

VARIABLES
  command,     \* the Pull or CreateCommand value being executed
  aliasStore,  \* the alias registry: per name, None or Some(alias)
  calls,       \* the calls made on the service, in order: [fn, args]
  cmdPc,       \* position of execute
  remoteModel, \* what find_remote_model returned to Pull::execute
  localFile,   \* what the download of the model file returned to create
  cmdResult    \* what execute returned: "none", "Ok" or the error's name

cmdVars == <<command, aliasStore, calls, cmdPc, remoteModel, localFile,
             cmdResult>>

---------------------------------------------------------------------------
(* State of the conversation store (DbService)                             *)

\* Calls of save_conversation: unbounded in the program.
MaxSaves == 3

\* Calls made on the store by its concurrent users: unbounded in the program.
MaxDbOps == 4

VARIABLES
  rows,        \* the conversations table: rows [id, title, created_at, updated_at]
  saves,       \* the calls of save_conversation so far, with their results
  msgs,        \* the messages table: rows [id, conversation_id, content,
               \* created_at, updated_at]
  dpc,         \* per task using the store: where it is in a delete
  lastOp,      \* the statement that produced the current state, with the
               \* call's result when it was the call's last
  nOps         \* calls started so far

dbVars == <<rows, saves, msgs, dpc, lastOp, nOps>>

cliVars == <<tmplVars, cmdVars, dbVars>>

appVars == <<srvVars, replVars, runVars, cliVars>>

vars == <<chatVars, smcVars, appVars>>

\* request.stream.unwrap_or(false)
stream == reqStream = "true"

NoResponse == [kind |-> "none", status |-> 0, contentType |-> "", body |-> <<>>]

\* The pipeline errors that arise before the engine is driven (steps 1-5 of
\* the pipeline) and the one the engine call itself returns.
EarlyErrors == {"AliasNotFound", "FileMissing"}
PipelineErrors == EarlyErrors \cup {"EngineCompletion"}

\* HTTP status of an OpenAIApiError.
StatusOf(err) ==
  CASE err = "AliasNotFound"    -> 404
    [] err = "FileMissing"      -> 404
    [] err = "EngineNotLoaded"  -> 503
    [] OTHER                    -> 500

Running == [state |-> "running", err |-> ""]

PipelineTerminated == pipeline.state # "running"

\* A Sender exists while the pipeline task owns tx or a spawned send task
\* holds its clone.
SendersAlive ==
  \/ pipeline.state = "running"
  \/ \E i \in 1..Len(sendTask) : sendTask[i] = "pending"

\* A channel that reports the end as soon as its buffer is empty.
ChannelDrained_IgnoresSenders == queue = <<>>

\* rx.recv() returns None: every sender dropped and nothing buffered.
ChannelDrained == queue = <<>> /\ ~SendersAlive

ChatInit ==
  /\ reqStream \in {"absent", "false", "true"}
  /\ pc = "start"
  /\ pipeline = Running
  /\ emitted = <<>>
  /\ sendTask = <<>>
  /\ queue = <<>>
  /\ rx = "open"
  /\ received = <<>>
  /\ message = <<>>
  /\ response = NoResponse
  /\ sse = "none"
  /\ events = <<>>

---------------------------------------------------------------------------
(* The producer side                                                       *)

\* The engine invokes the callback with one chunk: the callback clones the
\* sender, spawns a task that will send the chunk, and returns.
EngineEmit(c) ==
  /\ pipeline.state = "running"
  /\ Len(emitted) < MaxChunks
  /\ emitted' = Append(emitted, c)
  /\ sendTask' = Append(sendTask, "pending")
  /\ UNCHANGED <<smcVars, appVars>>
  /\ UNCHANGED <<reqStream, pc, pipeline, queue, rx, received, message,
                 response, sse, events>>

\* sender.send(input_str).await.unwrap() in the spawned task: waits while the
\* channel is full, enqueues, or gets Err from a closed channel and panics.
SendResult(i) ==
  IF rx = "closed" THEN "panicked" ELSE "sent"

SendTask(i) ==
  /\ i \in 1..Len(sendTask)
  /\ sendTask[i] = "pending"
  /\ rx = "closed" \/ Len(queue) < ChannelCapacity
  /\ sendTask' = [sendTask EXCEPT ![i] = SendResult(i)]
  /\ queue' = IF rx = "closed" THEN queue ELSE Append(queue, emitted[i])
  /\ UNCHANGED <<smcVars, appVars>>
  /\ UNCHANGED <<reqStream, pc, pipeline, emitted, rx, received, message,
                 response, sse, events>>

\* state.chat_completions returns Ok(()): tx is dropped.
PipelineOk ==
  /\ pipeline.state = "running"
  /\ pipeline' = [state |-> "ok", err |-> ""]
  /\ UNCHANGED <<smcVars, appVars>>
  /\ UNCHANGED <<reqStream, pc, emitted, sendTask, queue, rx, received,
                 message, response, sse, events>>

\* state.chat_completions returns Err(e): an early error before the engine
\* has emitted anything, EngineCompletion at any point.
PipelineFail(e) ==
  /\ pipeline.state = "running"
  /\ e \in EarlyErrors => emitted = <<>>
  /\ pipeline' = [state |-> "err", err |-> e]
  /\ UNCHANGED <<smcVars, appVars>>
  /\ UNCHANGED <<reqStream, pc, emitted, sendTask, queue, rx, received,
                 message, response, sse, events>>

\* The pipeline task panics: the JoinHandle resolves to a JoinError.
PipelineCrash ==
  /\ pipeline.state = "running"
  /\ pipeline' = [state |-> "crashed", err |-> ""]
  /\ UNCHANGED <<smcVars, appVars>>
  /\ UNCHANGED <<reqStream, pc, emitted, sendTask, queue, rx, received,
                 message, response, sse, events>>

---------------------------------------------------------------------------
(* chat_completions_handler                                                *)

\* A handler that removes the `data: ` prefix from the body.
NonStreamBody_Stripped(msg) ==
  IF starts_with(msg, DataPrefix) THEN strip_prefix(msg, DataPrefix).val ELSE msg

\* Body::from(message)
NonStreamBody(msg) == msg

\* if let Some(message) = rx.recv().await { drop(rx); ...
NonStreamRecv ==
  /\ pc = "start" /\ ~stream
  /\ queue # <<>>
  /\ message' = Head(queue)
  /\ received' = Append(received, Head(queue))
  /\ queue' = <<>>
  /\ rx' = "closed"
  /\ pc' = "join"
  /\ UNCHANGED <<smcVars, appVars>>
  /\ UNCHANGED <<reqStream, pipeline, emitted, sendTask, response, sse, events>>

\* ... _ = handle.await; Ok(response with status 200, application/json)
NonStreamRespond ==
  /\ pc = "join"
  /\ PipelineTerminated
  /\ response' = [kind |-> "ok", status |-> 200,
                  contentType |-> "application/json",
                  body |-> NonStreamBody(message)]
  /\ pc' = "done"
  /\ UNCHANGED <<smcVars, appVars>>
  /\ UNCHANGED <<reqStream, pipeline, emitted, sendTask, queue, rx, received,
                 message, sse, events>>

\* } else { Err(InternalServer("receiver stream abruptly closed")) }
NonStreamClosed ==
  /\ pc = "start" /\ ~stream
  /\ ChannelDrained
  /\ response' = [kind |-> "InternalServer", status |-> StatusOf("InternalServer"),
                  contentType |-> "application/json",
                  body |-> <<"receiver stream abruptly closed">>]
  /\ rx' = "closed"
  /\ pc' = "done"
  /\ UNCHANGED <<smcVars, appVars>>
  /\ UNCHANGED <<reqStream, pipeline, emitted, sendTask, queue, received,
                 message, sse, events>>

\* Ok(Sse::new(stream).into_response())
StreamRespond ==
  /\ pc = "start" /\ stream
  /\ response' = [kind |-> "ok", status |-> 200,
                  contentType |-> "text/event-stream", body |-> <<>>]
  /\ sse' = "open"
  /\ pc' = "done"
  /\ UNCHANGED <<smcVars, appVars>>
  /\ UNCHANGED <<reqStream, pipeline, emitted, sendTask, queue, rx, received,
                 message, events>>

\* A closure that removes the prefix and leaves the terminator.
EventData_KeepsSuffix(msg) ==
  IF starts_with(msg, DataPrefix) THEN strip_prefix(msg, DataPrefix)
  ELSE IF starts_with(msg, ErrorPrefix) THEN strip_prefix(msg, ErrorPrefix)
  ELSE Some(msg)

\* The closure mapped over ReceiverStream: the event data of one chunk, or
\* None where an unwrap() of the closure panics.
EventData(msg) ==
  IF starts_with(msg, DataPrefix)
  THEN strip_suffix(strip_prefix(msg, DataPrefix).val, ChunkSuffix)
  ELSE IF starts_with(msg, ErrorPrefix)
  THEN strip_suffix(strip_prefix(msg, ErrorPrefix).val, ChunkSuffix)
  ELSE Some(msg)

\* The SSE body polls the stream and a chunk is buffered: one event, or the
\* panic of the closure, which drops the stream and the receiver it owns.
StreamNext ==
  /\ sse = "open"
  /\ queue # <<>>
  /\ received' = Append(received, Head(queue))
  /\ IF EventData(Head(queue)).some
     THEN /\ events' = Append(events, EventData(Head(queue)).val)
          /\ queue' = Tail(queue)
          /\ UNCHANGED <<sse, rx>>
     ELSE /\ sse' = "panicked"
          /\ rx' = "closed"
          /\ queue' = <<>>
          /\ UNCHANGED events
  /\ UNCHANGED <<smcVars, appVars>>
  /\ UNCHANGED <<reqStream, pc, pipeline, emitted, sendTask, message, response>>

\* ReceiverStream yields None: the SSE body is complete.
StreamEnd ==
  /\ sse = "open"
  /\ ChannelDrained
  /\ sse' = "ended"
  /\ rx' = "closed"
  /\ UNCHANGED <<smcVars, appVars>>
  /\ UNCHANGED <<reqStream, pc, pipeline, emitted, sendTask, queue, received,
                 message, response, events>>

\* The client closes the connection: the response body, and with it the
\* receiver and what it buffers, is dropped.
ClientDisconnect ==
  /\ sse = "open"
  /\ sse' = "disconnected"
  /\ rx' = "closed"
  /\ queue' = <<>>
  /\ UNCHANGED <<smcVars, appVars>>
  /\ UNCHANGED <<reqStream, pc, pipeline, emitted, sendTask, received,
                 message, response, events>>

---------------------------------------------------------------------------

(* The shared model context                                                *)

\* has_model()
has_model == ctx # 0

\* get_gpt_params()
get_gpt_params == gptParams

Unlocked == [writer |-> "none", readers |-> {}]

\* A lock that grants the exclusive lock while readers hold it.
WriteLockFree_IgnoresReaders == lock.writer = "none"

\* An exclusive lock is granted when nobody holds the lock.
WriteLockFree == lock.writer = "none" /\ lock.readers = {}

\* A lock that grants the shared lock while a writer holds it.
ReadLockFree_IgnoresWriter == TRUE

\* A shared lock is granted when no writer holds the lock.
ReadLockFree == lock.writer = "none"

\* SharedContextRw::new_shared_rw(initial) having returned Ok: empty for
\* None (the serve command), a live engine with P for Some(P) (the
\* interactive client).
NewSharedRw(initial) ==
  /\ ctx = IF initial.some THEN 1 ELSE 0
  /\ gptParams = initial
  /\ inst = IF initial.some
            THEN <<[params |-> initial.val, state |-> "live"]>>
            ELSE <<>>
  /\ lock = Unlocked
  /\ tpc = [t \in Tasks |-> "idle"]
  /\ targ = [t \in Tasks |-> None]
  /\ tengine = [t \in Tasks |-> 0]
  /\ tres = [t \in Tasks |-> "none"]

Finish(t, result) ==
  /\ lock' = Unlocked
  /\ tpc' = [tpc EXCEPT ![t] = "idle"]
  /\ tres' = [tres EXCEPT ![t] = result]

\* A reload that never finds its parameters live.
ParamsAreLive_Never(p) == FALSE

\* The requested parameters are Some(P) and equal the live ones.
ParamsAreLive(p) == p.some /\ p = gptParams

\* reload(params): takes the exclusive lock. A request for the parameters
\* that are live is not a reload.
ReloadBegin(t, p) ==
  /\ tpc[t] = "idle"
  /\ WriteLockFree
  /\ Len(inst) < MaxEngines
  /\ lock' = [writer |-> t, readers |-> {}]
  /\ targ' = [targ EXCEPT ![t] = p]
  /\ tpc' = [tpc EXCEPT ![t] = IF ParamsAreLive(p)
                               THEN "reload_same" ELSE "reload_stop"]
  /\ UNCHANGED <<ctx, gptParams, inst, tengine, tres>>
  /\ UNCHANGED <<chatVars, appVars>>

ReloadSame(t) ==
  /\ tpc[t] = "reload_same"
  /\ Finish(t, "Ok")
  /\ UNCHANGED <<ctx, gptParams, inst, targ, tengine>>
  /\ UNCHANGED <<chatVars, appVars>>

\* (i) if an engine is live, stop it
ReloadStop(t) ==
  /\ tpc[t] = "reload_stop"
  /\ IF ctx = 0
     THEN UNCHANGED <<ctx, inst>>
     ELSE /\ inst' = [inst EXCEPT ![ctx].state = "stopped"]
          /\ ctx' = 0
  /\ tpc' = [tpc EXCEPT ![t] = IF targ[t].some THEN "reload_init"
                                                ELSE "reload_update"]
  /\ UNCHANGED <<gptParams, lock, targ, tengine, tres>>
  /\ UNCHANGED <<chatVars, appVars>>

\* The native stop fails: reload fails with EngineStop, the engine stays.
ReloadStopFail(t) ==
  /\ tpc[t] = "reload_stop"
  /\ ctx # 0
  /\ Finish(t, "EngineStop")
  /\ UNCHANGED <<ctx, gptParams, inst, targ, tengine>>
  /\ UNCHANGED <<chatVars, appVars>>

\* (ii) if params == Some(P), initialize a new engine with P
ReloadInit(t) ==
  /\ tpc[t] = "reload_init"
  /\ inst' = Append(inst, [params |-> targ[t].val, state |-> "initializing"])
  /\ tpc' = [tpc EXCEPT ![t] = "reload_initializing"]
  /\ UNCHANGED <<ctx, gptParams, lock, targ, tengine, tres>>
  /\ UNCHANGED <<chatVars, appVars>>

ReloadInitOk(t) ==
  /\ tpc[t] = "reload_initializing"
  /\ inst' = [inst EXCEPT ![Len(inst)].state = "live"]
  /\ ctx' = Len(inst)
  /\ tpc' = [tpc EXCEPT ![t] = "reload_update"]
  /\ UNCHANGED <<gptParams, lock, targ, tengine, tres>>
  /\ UNCHANGED <<chatVars, appVars>>

\* The native init fails: reload fails with EngineInit and the context is
\* left empty.
ReloadInitFail(t) ==
  /\ tpc[t] = "reload_initializing"
  /\ inst' = [inst EXCEPT ![Len(inst)].state = "failed"]
  /\ gptParams' = None
  /\ Finish(t, "EngineInit")
  /\ UNCHANGED <<ctx, targ, tengine>>
  /\ UNCHANGED <<chatVars, appVars>>

\* (iii) update stored params, and release the lock
ReloadUpdate(t) ==
  /\ tpc[t] = "reload_update"
  /\ gptParams' = targ[t]
  /\ Finish(t, "Ok")
  /\ UNCHANGED <<ctx, inst, targ, tengine>>
  /\ UNCHANGED <<chatVars, appVars>>

\* An ensure-engine step that hands its request to reload as it is.
EnsureDecision_AsReload(p) ==
  IF ParamsAreLive(p) THEN "reload_same" ELSE "reload_stop"

\* The reload decision rule of the pipeline's ensure-engine step:
\*   empty, Some(P) -> init with P;      engine(P), Some(P) -> no-op;
\*   engine(P1), Some(P2) -> stop, init; engine(P), None    -> no-op;
\*   empty, None -> fail EngineNotLoaded.
EnsureDecision(p) ==
  CASE p.some /\ ParamsAreLive(p) -> "reload_same"
    [] p.some /\ ~ParamsAreLive(p) -> "reload_stop"
    [] ~p.some /\ ctx # 0 -> "reload_same"
    [] OTHER -> "ensure_not_loaded"

\* Step 5 of the pipeline: decide under the exclusive lock, then reload or
\* leave the engine alone.
EnsureBegin(t, p) ==
  /\ tpc[t] = "idle"
  /\ WriteLockFree
  /\ Len(inst) < MaxEngines
  /\ lock' = [writer |-> t, readers |-> {}]
  /\ targ' = [targ EXCEPT ![t] = p]
  /\ tpc' = [tpc EXCEPT ![t] = EnsureDecision(p)]
  /\ UNCHANGED <<ctx, gptParams, inst, tengine, tres>>
  /\ UNCHANGED <<chatVars, appVars>>

\* empty with None: the request fails with EngineNotLoaded.
EnsureNotLoaded(t) ==
  /\ tpc[t] = "ensure_not_loaded"
  /\ Finish(t, "EngineNotLoaded")
  /\ UNCHANGED <<ctx, gptParams, inst, targ, tengine>>
  /\ UNCHANGED <<chatVars, appVars>>

\* try_stop(): takes the exclusive lock
TryStopBegin(t) ==
  /\ tpc[t] = "idle"
  /\ WriteLockFree
  /\ lock' = [writer |-> t, readers |-> {}]
  /\ tpc' = [tpc EXCEPT ![t] = "try_stop"]
  /\ UNCHANGED <<ctx, gptParams, inst, targ, tengine, tres>>
  /\ UNCHANGED <<chatVars, appVars>>

\* A try_stop that leaves the stored parameters as they were.
ParamsAfterStop_Stale == gptParams

\* The stored parameters once the engine is stopped and dropped.
ParamsAfterStop == None

\* stop and drop the engine; no-op if empty
TryStop(t) ==
  /\ tpc[t] = "try_stop"
  /\ IF ctx = 0
     THEN UNCHANGED <<ctx, inst, gptParams>>
     ELSE /\ inst' = [inst EXCEPT ![ctx].state = "stopped"]
          /\ ctx' = 0
          /\ gptParams' = ParamsAfterStop
  /\ Finish(t, "Ok")
  /\ UNCHANGED <<targ, tengine>>
  /\ UNCHANGED <<chatVars, appVars>>

TryStopFail(t) ==
  /\ tpc[t] = "try_stop"
  /\ ctx # 0
  /\ Finish(t, "EngineStop")
  /\ UNCHANGED <<ctx, gptParams, inst, targ, tengine>>
  /\ UNCHANGED <<chatVars, appVars>>

\* completion(): takes the shared lock and forwards to the live engine
CompletionBegin(t) ==
  /\ tpc[t] = "idle"
  /\ ReadLockFree
  /\ ctx # 0
  /\ lock' = [lock EXCEPT !.readers = @ \cup {t}]
  /\ tengine' = [tengine EXCEPT ![t] = ctx]
  /\ tpc' = [tpc EXCEPT ![t] = "completing"]
  /\ UNCHANGED <<ctx, gptParams, inst, targ, tres>>
  /\ UNCHANGED <<chatVars, appVars>>

\* A completion that reports success when there is no engine.
CompletionOnEmpty_Ok == "Ok"

\* What completion() returns when the context is empty.
CompletionOnEmpty == "EngineNotLoaded"

\* completion() on an empty context fails with EngineNotLoaded
CompletionNotLoaded(t) ==
  /\ tpc[t] = "idle"
  /\ ReadLockFree
  /\ ctx = 0
  /\ tres' = [tres EXCEPT ![t] = CompletionOnEmpty]
  /\ UNCHANGED <<ctx, gptParams, inst, lock, tpc, targ, tengine>>
  /\ UNCHANGED <<chatVars, appVars>>

\* The engine returns: Ok, or EngineCompletion on a native error
CompletionEnd(t, result) ==
  /\ tpc[t] = "completing"
  /\ lock' = [lock EXCEPT !.readers = @ \ {t}]
  /\ tpc' = [tpc EXCEPT ![t] = "idle"]
  /\ tres' = [tres EXCEPT ![t] = result]
  /\ UNCHANGED <<ctx, gptParams, inst, targ, tengine>>
  /\ UNCHANGED <<chatVars, appVars>>

---------------------------------------------------------------------------

\* A serve command that builds its context with a model loaded.
ServeInitial_Eager == Some("P1")

\* The serve command builds its context with new_shared_rw(None).
ServeInitial == None

\* build_server_handle: the server and its two oneshot channels.
ServerNew ==
  /\ srv = "new"
  /\ sig = "waiting"
  /\ shutdown = "open"
  /\ readyCount = 0
  /\ readyRx = "waiting"
  /\ cbRuns = 0
  /\ conns = 0
  /\ accepted = 0
  /\ listener = "none"

\* execute has not returned.
NoResult == [kind |-> "none", filename |-> <<>>, dirname |-> <<>>]

\* The model cache directory of the test fixtures.
DefaultHfHome == <<Sep, "hf", Sep, "hub">>

\* No interactive client in the process.
ReplOff ==
  /\ replPc = "off"
  /\ turn = 0
  /\ history = <<>>
  /\ recvTask = "none" /\ request = <<>>
  /\ hfHome = DefaultHfHome
  /\ stopCalls = 0
  /\ execResult = NoResult

\* apply_chat_template has not been called.
NoOut == [kind |-> "none", err |-> "", prompt |-> <<>>]

\* TokenizerConfig::default()
DefaultTokenizerConfig ==
  [chat_template |-> None, bos_token |-> None, eos_token |-> None]

\* No prompt is being rendered.
TmplOff ==
  /\ tcConfig = DefaultTokenizerConfig
  /\ tcMessages = <<>>
  /\ tcOut = NoOut

\* No Pull or CreateCommand value exists.
NoCommand ==
  [op |-> "none", alias |-> "", repo |-> "", filename |-> "",
   force |-> FALSE, chat_template |-> [kind |-> "Id", val |-> ""]]

\* Names an alias can have.
AliasNames == {"a1", "a2"}

\* Neither pull nor create is run.
CmdOff ==
  /\ command = NoCommand
  /\ aliasStore = [n \in AliasNames |-> None]
  /\ calls = <<>>
  /\ cmdPc = "off"
  /\ remoteModel = None
  /\ localFile = None
  /\ cmdResult = "none"

\* The conversations table after the migrations: empty.
StoreTasks == {"t1", "t2"}
NoOp == [op |-> "none"]
DbNew ==
  /\ rows = {}
  /\ saves = <<>>
  /\ msgs = {}
  /\ dpc = [t \in StoreTasks |-> [at |-> "idle"]]
  /\ lastOp = NoOp
  /\ nOps = 0

\* No other command has been run.
CliOff == TmplOff /\ CmdOff /\ DbNew

Init ==
  /\ ChatInit
  /\ NewSharedRw(ServeInitial)
  /\ ServerNew
  /\ ReplOff
  /\ CliOff
  /\ cmd = "serve"

Next ==
  \/ \E c \in Chunks : EngineEmit(c)
  \/ \E i \in 1..MaxChunks : SendTask(i)
  \/ PipelineOk
  \/ \E e \in PipelineErrors : PipelineFail(e)
  \/ PipelineCrash
  \/ NonStreamRecv
  \/ NonStreamRespond
  \/ NonStreamClosed
  \/ StreamRespond
  \/ StreamNext
  \/ StreamEnd
  \/ ClientDisconnect

Spec == Init /\ [][Next]_vars

\* No request in flight on the HTTP side.
ChatIdle ==
  /\ reqStream = "absent"
  /\ pc = "start"
  /\ pipeline = Running
  /\ emitted = <<>>
  /\ sendTask = <<>>
  /\ queue = <<>>
  /\ rx = "open"
  /\ received = <<>>
  /\ message = <<>>
  /\ response = NoResponse
  /\ sse = "none"
  /\ events = <<>>

\* The context as the serve command builds it (empty) or as the interactive
\* client builds it (the alias's model loaded).
SmcInit ==
  /\ ChatIdle
  /\ ServerNew
  /\ ReplOff
  /\ CliOff
  /\ \/ cmd = "serve" /\ NewSharedRw(ServeInitial)
     \/ cmd = "run" /\ \E p \in Params : NewSharedRw(Some(p))

SmcNext ==
  \/ \E t \in Tasks, p \in {None} \cup {Some(q) : q \in Params} : ReloadBegin(t, p)
  \/ \E t \in Tasks : ReloadSame(t)
  \/ \E t \in Tasks : ReloadStop(t)
  \/ \E t \in Tasks : ReloadStopFail(t)
  \/ \E t \in Tasks : ReloadInit(t)
  \/ \E t \in Tasks : ReloadInitOk(t)
  \/ \E t \in Tasks : ReloadInitFail(t)
  \/ \E t \in Tasks : ReloadUpdate(t)
  \/ \E t \in Tasks : TryStopBegin(t)
  \/ \E t \in Tasks : TryStop(t)
  \/ \E t \in Tasks : TryStopFail(t)
  \/ \E t \in Tasks : CompletionBegin(t)
  \/ \E t \in Tasks : CompletionNotLoaded(t)
  \/ \E t \in Tasks, r \in {"Ok", "EngineCompletion"} : CompletionEnd(t, r)

SmcSpec == SmcInit /\ [][SmcNext]_vars

\* Concurrent reload requests that all carry the same parameters, on a
\* context that starts empty, with those parameters live or with others
\* live, while completions run.
EqualParams == Some("P1")

EqualReloadNext ==
  \/ \E t \in Tasks : ReloadBegin(t, EqualParams)
  \/ \E t \in Tasks : ReloadSame(t)
  \/ \E t \in Tasks : ReloadStop(t)
  \/ \E t \in Tasks : ReloadStopFail(t)
  \/ \E t \in Tasks : ReloadInit(t)
  \/ \E t \in Tasks : ReloadInitOk(t)
  \/ \E t \in Tasks : ReloadInitFail(t)
  \/ \E t \in Tasks : ReloadUpdate(t)
  \/ \E t \in Tasks : CompletionBegin(t)
  \/ \E t \in Tasks : CompletionNotLoaded(t)
  \/ \E t \in Tasks, r \in {"Ok", "EngineCompletion"} : CompletionEnd(t, r)

EqualReloadSpec == SmcInit /\ [][EqualReloadNext]_vars

\* The context as the requests of a serving process use it: every request
\* goes through the ensure-engine step and then the completion, and the
\* shutdown callback or the exit of the client calls try_stop.
EnsureNext ==
  \/ \E t \in Tasks, p \in {None} \cup {Some(q) : q \in Params} : EnsureBegin(t, p)
  \/ \E t \in Tasks : EnsureNotLoaded(t)
  \/ \E t \in Tasks : ReloadSame(t)
  \/ \E t \in Tasks : ReloadStop(t)
  \/ \E t \in Tasks : ReloadStopFail(t)
  \/ \E t \in Tasks : ReloadInit(t)
  \/ \E t \in Tasks : ReloadInitOk(t)
  \/ \E t \in Tasks : ReloadInitFail(t)
  \/ \E t \in Tasks : ReloadUpdate(t)
  \/ \E t \in Tasks : TryStopBegin(t)
  \/ \E t \in Tasks : TryStop(t)
  \/ \E t \in Tasks : TryStopFail(t)
  \/ \E t \in Tasks : CompletionBegin(t)
  \/ \E t \in Tasks : CompletionNotLoaded(t)
  \/ \E t \in Tasks, r \in {"Ok", "EngineCompletion"} : CompletionEnd(t, r)

EnsureSpec == SmcInit /\ [][EnsureNext]_vars

---------------------------------------------------------------------------
(* The HTTP server: Server::start_new, its caller and its clients          *)

\* TcpListener::bind(&addr) succeeds.
Bind ==
  /\ srv = "new"
  /\ srv' = "bound"
  /\ listener' = "bound"
  /\ UNCHANGED <<sig, shutdown, readyCount, readyRx, cbRuns, conns, accepted>>
  /\ UNCHANGED <<chatVars, smcVars, replVars, runVars, cliVars>>

\* TcpListener::bind(&addr) fails: start_new returns the error, and the
\* ready sender and the shutdown receiver it owned are dropped.
BindFail ==
  /\ srv = "new"
  /\ srv' = "err"
  /\ readyRx' = IF readyRx = "waiting" THEN "closed" ELSE readyRx
  /\ UNCHANGED <<sig, shutdown, readyCount, cbRuns, conns, accepted, listener>>
  /\ UNCHANGED <<chatVars, smcVars, replVars, runVars, cliVars>>

\* A server that signals ready before it binds.
ReadyPoint_BeforeBind == "new"

\* Where start_new stands when it sends ready: past the bind.
ReadyPoint == "bound"

\* ready.send(()), then axum_server is awaited: the accept loop runs and
\* the graceful-shutdown future is polled.
ReadySend ==
  /\ srv = ReadyPoint
  /\ srv' = "serving"
  /\ readyCount' = readyCount + 1
  /\ readyRx' = "ok"
  /\ UNCHANGED <<sig, shutdown, cbRuns, conns, accepted, listener>>
  /\ UNCHANGED <<chatVars, smcVars, replVars, runVars, cliVars>>

\* ServerShutdownHandle::shutdown: shutdown.send(()); the handle exists once
\* the wait on ready_rx is over. The send fails when start_new has returned.
ShutdownSend ==
  /\ shutdown = "open"
  /\ readyRx # "waiting"
  /\ shutdown' = IF srv \in {"ok", "err"} THEN "failed" ELSE "sent"
  /\ UNCHANGED <<srv, sig, readyCount, readyRx, cbRuns, conns, accepted, listener>>
  /\ UNCHANGED <<chatVars, smcVars, replVars, runVars, cliVars>>

\* The shutdown sender is dropped without a send.
ShutdownDrop ==
  /\ shutdown = "open"
  /\ readyRx # "waiting"
  /\ shutdown' = "dropped"
  /\ UNCHANGED <<srv, sig, readyCount, readyRx, cbRuns, conns, accepted, listener>>
  /\ UNCHANGED <<chatVars, smcVars, replVars, runVars, cliVars>>

\* The task that runs the on_shutdown callback on the shared context.
CbTask == "t1"

\* The task that serves the requests of the connections.
ReqTask == "t2"

\* A graceful-shutdown future that goes on only when the signal was sent.
ShutdownReceived_OnlySent == shutdown = "sent"

\* shutdown_rx.await is over: Ok(()) when the signal was sent, Err when
\* the sender was dropped.
ShutdownReceived == shutdown \in {"sent", "dropped"}

\* shutdown_rx.await returns (Ok, or Err when the sender was dropped) and
\* the callback is invoked.
CallbackStart ==
  /\ srv = "serving"
  /\ sig = "waiting"
  /\ ShutdownReceived
  /\ sig' = "callback"
  /\ cbRuns' = cbRuns + 1
  /\ UNCHANGED <<srv, shutdown, readyCount, readyRx, conns, accepted, listener>>
  /\ UNCHANGED <<chatVars, smcVars, replVars, runVars, cliVars>>

\* ShutdownContextCallback::shutdown: ctx.try_stop().await
CallbackTryStopBegin ==
  /\ sig = "callback"
  /\ tres[CbTask] = "none"
  /\ TryStopBegin(CbTask)

\* The callback returns, whatever try_stop returned: the future given to
\* with_graceful_shutdown is complete.
CallbackDone ==
  /\ sig = "callback"
  /\ tpc[CbTask] = "idle"
  /\ tres[CbTask] # "none"
  /\ sig' = "done"
  /\ UNCHANGED <<srv, shutdown, readyCount, readyRx, cbRuns, conns, accepted, listener>>
  /\ UNCHANGED <<chatVars, smcVars, replVars, runVars, cliVars>>

\* An accept loop that leaves as soon as the shutdown signal is received.
SignalComplete_OnReceive == sig # "waiting"

\* The graceful-shutdown future has completed.
SignalComplete == sig = "done"

\* The accept loop sees the signal and ends; the listener is dropped.
StopAccepting ==
  /\ srv = "serving"
  /\ SignalComplete
  /\ srv' = "closing"
  /\ listener' = "closed"
  /\ UNCHANGED <<sig, shutdown, readyCount, readyRx, cbRuns, conns, accepted>>
  /\ UNCHANGED <<chatVars, smcVars, replVars, runVars, cliVars>>

\* The accept loop accepts a connection.
Accept ==
  /\ srv = "serving"
  /\ accepted < MaxConns
  /\ conns' = conns + 1
  /\ accepted' = accepted + 1
  /\ UNCHANGED <<srv, sig, shutdown, readyCount, readyRx, cbRuns, listener>>
  /\ UNCHANGED <<chatVars, smcVars, replVars, runVars, cliVars>>

\* A connection is closed, its requests answered.
ConnDone ==
  /\ conns > 0
  /\ conns' = conns - 1
  /\ UNCHANGED <<srv, sig, shutdown, readyCount, readyRx, cbRuns, accepted, listener>>
  /\ UNCHANGED <<chatVars, smcVars, replVars, runVars, cliVars>>

\* Every connection is closed: axum_server.await returns, start_new
\* returns Ok.
Return ==
  /\ srv = "closing"
  /\ conns = 0
  /\ srv' = "ok"
  /\ UNCHANGED <<sig, shutdown, readyCount, readyRx, cbRuns, conns, accepted, listener>>
  /\ UNCHANGED <<chatVars, smcVars, replVars, runVars, cliVars>>

\* A request of an open connection drives the shared context.
RequestStep ==
  /\ conns > 0
  /\ \/ \E p \in Params : EnsureBegin(ReqTask, Some(p))
     \/ CompletionBegin(ReqTask)

\* The steps the shared context takes once it was called.
ContextStep ==
  \/ ReloadSame(ReqTask)
  \/ ReloadStop(ReqTask)
  \/ ReloadStopFail(ReqTask)
  \/ ReloadInit(ReqTask)
  \/ ReloadInitOk(ReqTask)
  \/ ReloadInitFail(ReqTask)
  \/ ReloadUpdate(ReqTask)
  \/ TryStop(CbTask)
  \/ TryStopFail(CbTask)

ServerInit ==
  /\ ChatIdle
  /\ NewSharedRw(ServeInitial)
  /\ ServerNew
  /\ ReplOff
  /\ CliOff
  /\ cmd = "serve"

ServerNext ==
  \/ Bind
  \/ BindFail
  \/ ReadySend
  \/ ShutdownSend
  \/ ShutdownDrop
  \/ CallbackStart
  \/ CallbackTryStopBegin
  \/ CallbackDone
  \/ StopAccepting
  \/ Accept
  \/ ConnDone
  \/ Return
  \/ RequestStep
  \/ ContextStep
  \/ \E r \in {"Ok", "EngineCompletion"} : CompletionEnd(ReqTask, r)

\* The runtime polls every task that can run: start_new, the
\* graceful-shutdown future, the accept loop and the calls on the shared
\* context other than the engine's completion go on when they can. Nothing
\* obliges a client to connect, a request to end or the caller to ask for
\* the shutdown.
ServerSpec ==
  /\ ServerInit /\ [][ServerNext]_vars
  /\ WF_vars(Bind \/ BindFail)
  /\ WF_vars(ReadySend)
  /\ WF_vars(CallbackStart)
  /\ WF_vars(CallbackTryStopBegin)
  /\ WF_vars(CallbackDone)
  /\ WF_vars(StopAccepting)
  /\ WF_vars(Return)
  /\ WF_vars(ContextStep)

\* aexecute_by_params past the spawn of start_new: it waits on ready_rx
\* and, whether the wait ends with Ok(()) or with the error of a dropped
\* sender (which is logged), returns Ok with the shutdown handle.
AexecuteResult ==
  IF readyRx = "waiting" THEN "pending" ELSE "Ok"

\* The server whose clients close their connections and whose engine
\* finishes the completions it was asked for.
DrainSpec ==
  /\ ServerSpec
  /\ WF_vars(ConnDone)
  /\ WF_vars(\E r \in {"Ok", "EngineCompletion"} : CompletionEnd(ReqTask, r))

---------------------------------------------------------------------------
(* The interactive client: Interactive::execute and process_input          *)

\* A payload that is not a JSON document.
Garbage == "~"

\* What the engine emits in a turn of the client: a token delta, an engine
\* error frame and a frame that carries no JSON document.
ReplChunks == {DataChunk("a"), ErrorChunk("a"), DataChunk(Garbage)}

\* The decoding of a chunk by the receiving task: the `data: ` prefix is
\* removed when the chunk starts with it, and the rest is parsed as a JSON
\* document (white space may follow it); Some(delta) or None for the
\* serde error.
DecodeChunk(msg) ==
  LET m == IF starts_with(msg, DataPrefix)
           THEN strip_prefix(msg, DataPrefix).val
           ELSE msg
  IN  IF \E d \in Payloads : m = <<d>> \/ m = <<d>> \o ChunkSuffix
      THEN Some(m[1])
      ELSE None

NoPipeline == [state |-> "none", err |-> ""]

\* Interactive::execute has built the context with the alias's model and
\* an empty chat history, and waits for the first line.
ReplInit ==
  /\ cmd = "run"
  /\ NewSharedRw(Some("P1"))
  /\ ServerNew
  /\ replPc = "idle"
  /\ turn = 0
  /\ history = <<>>
  /\ recvTask = "none" /\ request = <<>>
  /\ hfHome = DefaultHfHome
  /\ stopCalls = 0
  /\ execResult = NoResult
  /\ CliOff
  /\ reqStream = "true"
  /\ pc = "start"
  /\ pipeline = NoPipeline
  /\ emitted = <<>>
  /\ sendTask = <<>>
  /\ queue = <<>>
  /\ rx = "closed"
  /\ received = <<>>
  /\ message = <<>>
  /\ response = NoResponse
  /\ sse = "none"
  /\ events = <<>>

\* A request built from the history as it was before the push.
MsgsClone_BeforePush(h, m) == h

\* (*lock).push(User(input)); let msgs_clone = (*lock).clone();
MsgsClone(h, m) == Append(h, m)

\* A line other than /bye is read: process_input pushes the user message,
\* builds the streaming request, creates the channel, spawns the receiving
\* task and calls the pipeline.
ReadPrompt ==
  /\ replPc = "idle"
  /\ turn < MaxTurns
  /\ turn' = turn + 1
  /\ history' = Append(history, [role |-> "user", turn |-> turn + 1])
  /\ request' = MsgsClone(history, [role |-> "user", turn |-> turn + 1])
  /\ replPc' = "generating"
  /\ recvTask' = "running"
  /\ pipeline' = Running
  /\ emitted' = <<>>
  /\ sendTask' = <<>>
  /\ queue' = <<>>
  /\ rx' = "open"
  /\ received' = <<>>
  /\ UNCHANGED <<reqStream, pc, message, response, sse, events>>
  /\ UNCHANGED <<cmd, smcVars, srvVars, runVars, cliVars>>

\* The receiving task takes a chunk: it adds the delta to the text, or
\* returns the decoding error through `?`, dropping the receiver.
ReplRecv ==
  /\ recvTask = "running"
  /\ queue # <<>>
  /\ received' = Append(received, Head(queue))
  /\ IF DecodeChunk(Head(queue)).some
     THEN /\ queue' = Tail(queue)
          /\ UNCHANGED <<recvTask, rx>>
     ELSE /\ recvTask' = "err"
          /\ rx' = "closed"
          /\ queue' = <<>>
  /\ UNCHANGED <<reqStream, pc, pipeline, emitted, sendTask, message,
                 response, sse, events>>
  /\ UNCHANGED <<cmd, replPc, turn, history, request, smcVars, srvVars, runVars, cliVars>>

\* rx.recv() returns None: the receiving task pushes the assistant message
\* made of the deltas it has and returns Ok.
ReplRecvEnd ==
  /\ recvTask = "running"
  /\ ChannelDrained
  /\ history' = Append(history, [role |-> "assistant", turn |-> turn])
  /\ recvTask' = "ok"
  /\ rx' = "closed"
  /\ UNCHANGED <<reqStream, pc, pipeline, emitted, sendTask, queue, received,
                 message, response, sse, events>>
  /\ UNCHANGED <<cmd, replPc, turn, request, smcVars, srvVars, runVars, cliVars>>

\* The pipeline call has returned and the receiving task is joined: its
\* error leaves process_input, and execute, through `?`; otherwise the
\* pipeline's error, if any, is printed and the loop goes on.
TurnEnd ==
  /\ replPc = "generating"
  /\ PipelineTerminated
  /\ recvTask \in {"ok", "err"}
  /\ replPc' = IF recvTask = "err" THEN "failed" ELSE "idle"
  /\ execResult' = IF recvTask = "err"
                   THEN [NoResult EXCEPT !.kind = "SerdeJsonSerialize"]
                   ELSE execResult
  /\ UNCHANGED chatVars
  /\ UNCHANGED <<cmd, turn, history, recvTask, request, smcVars, srvVars>>
  /\ UNCHANGED <<hfHome, stopCalls, cliVars>>

\* /bye is read: the loop ends and try_stop stops the engine.
Bye ==
  /\ replPc = "idle"
  /\ replPc' = "exited"
  /\ IF ctx = 0
     THEN UNCHANGED <<ctx, inst, gptParams>>
     ELSE /\ inst' = [inst EXCEPT ![ctx].state = "stopped"]
          /\ ctx' = 0
          /\ gptParams' = ParamsAfterStop
  /\ stopCalls' = stopCalls + 1
  /\ execResult' = [NoResult EXCEPT !.kind = "Ok"]
  /\ UNCHANGED <<lock, tpc, targ, tengine, tres>>
  /\ UNCHANGED chatVars
  /\ UNCHANGED <<cmd, turn, history, recvTask, request, srvVars, hfHome, cliVars>>

\* /bye is read and try_stop fails with EngineStop: execute returns it.
ByeFail ==
  /\ replPc = "idle"
  /\ ctx # 0
  /\ replPc' = "stop_failed"
  /\ stopCalls' = stopCalls + 1
  /\ execResult' = [NoResult EXCEPT !.kind = "EngineStop"]
  /\ UNCHANGED chatVars
  /\ UNCHANGED <<cmd, turn, history, recvTask, request, smcVars, srvVars>>
  /\ UNCHANGED <<hfHome, cliVars>>

ReplNext ==
  \/ ReadPrompt
  \/ \E c \in ReplChunks : EngineEmit(c)
  \/ \E i \in 1..MaxChunks : SendTask(i)
  \/ PipelineOk
  \/ \E e \in PipelineErrors : PipelineFail(e)
  \/ ReplRecv
  \/ ReplRecvEnd
  \/ TurnEnd
  \/ Bye
  \/ ByeFail

ReplSpec == ReplInit /\ [][ReplNext]_vars

---------------------------------------------------------------------------
(* Interactive::execute from its first statement                           *)

\* Values hf_home() returns: the cache directory of the fixtures, a
\* shorter one, and one written with a separator at its end.
HfHomes == {DefaultHfHome, <<Sep, "hub">>, <<Sep, "hf", Sep, "hub", Sep>>}

\* The alias the client is started with.
AliasRepo == "models--R"
AliasFilename == "f.gguf"
AliasSnapshot == "s1"

\* PathBuf::join of a directory and the names below it.
RECURSIVE PathJoin(_, _)
PathJoin(dir, names) ==
  IF names = <<>> THEN dir
  ELSE PathJoin(IF dir # <<>> /\ dir[Len(dir)] = Sep
                THEN Append(dir, Head(names))
                ELSE dir \o <<Sep, Head(names)>>,
                Tail(names))

\* model_file_path: the place of a file in the hub cache layout.
model_file_path(repo, filename, snapshot) ==
  PathJoin(hfHome, <<repo, "snapshots", snapshot, filename>>)

\* str::rsplit_once: the text before and after the last separator.
rsplit_once(s, sep) ==
  IF \E i \in 1..Len(s) : s[i] = sep
  THEN LET i == CHOOSE k \in 1..Len(s) :
                  s[k] = sep /\ \A j \in (k + 1)..Len(s) : s[j] # sep
       IN  Some(<<SubSeq(s, 1, i - 1), SubSeq(s, i + 1, Len(s))>>)
  ELSE None

\* The directory as the error reports it, when the prefix is never removed.
RelativeDir_Absolute(dirname, home) == dirname

\* dirname.strip_prefix(hf_home).unwrap_or(dirname)
RelativeDir(dirname, home) ==
  IF strip_prefix(dirname, home).some
  THEN strip_prefix(dirname, home).val
  ELSE dirname

\* The error built when find_local_file returns None.
FileMissing ==
  LET filepath == model_file_path(AliasRepo, AliasFilename, AliasSnapshot)
      split == rsplit_once(filepath, Sep)
      dirname == IF split.some THEN split.val[1] ELSE <<>>
      filename == IF split.some THEN split.val[2] ELSE filepath
  IN  [kind |-> "FileMissing",
       filename |-> filename,
       dirname |-> RelativeDir(dirname, hfHome)]

\* execute is entered: no context, no history, nothing read.
RunInit ==
  /\ cmd = "run"
  /\ NewSharedRw(None)
  /\ ServerNew
  /\ CliOff
  /\ replPc = "start"
  /\ turn = 0
  /\ history = <<>>
  /\ recvTask = "none" /\ request = <<>>
  /\ hfHome \in HfHomes
  /\ stopCalls = 0
  /\ execResult = NoResult
  /\ reqStream = "true"
  /\ pc = "start"
  /\ pipeline = NoPipeline
  /\ emitted = <<>>
  /\ sendTask = <<>>
  /\ queue = <<>>
  /\ rx = "closed"
  /\ received = <<>>
  /\ message = <<>>
  /\ response = NoResponse
  /\ sse = "none"
  /\ events = <<>>

\* find_local_file: the file is found, is absent, or the lookup fails.
FindLocalFile(found) ==
  /\ replPc = "start"
  /\ CASE found = "some" ->
            /\ replPc' = "loading"
            /\ UNCHANGED execResult
       [] found = "none" ->
            /\ replPc' = "file_missing"
            /\ execResult' = FileMissing
       [] OTHER ->
            /\ replPc' = "hub_failed"
            /\ execResult' = [NoResult EXCEPT !.kind = "HubService"]
  /\ UNCHANGED chatVars
  /\ UNCHANGED <<cmd, turn, history, recvTask, request, hfHome, stopCalls>>
  /\ UNCHANGED <<smcVars, srvVars, cliVars>>

\* new_shared_rw(Some(gpt_params)) brings the engine up.
LoadModel ==
  /\ replPc = "loading"
  /\ replPc' = "idle"
  /\ inst' = Append(inst, [params |-> "P1", state |-> "live"])
  /\ ctx' = Len(inst) + 1
  /\ gptParams' = Some("P1")
  /\ UNCHANGED <<lock, tpc, targ, tengine, tres>>
  /\ UNCHANGED chatVars
  /\ UNCHANGED <<cmd, turn, history, recvTask, request, runVars, srvVars, cliVars>>

\* new_shared_rw(Some(gpt_params)) fails: execute returns the error.
LoadModelFail ==
  /\ replPc = "loading"
  /\ replPc' = "init_failed"
  /\ execResult' = [NoResult EXCEPT !.kind = "EngineInit"]
  /\ UNCHANGED chatVars
  /\ UNCHANGED <<cmd, turn, history, recvTask, request, hfHome, stopCalls>>
  /\ UNCHANGED <<smcVars, srvVars, cliVars>>

RunNext ==
  \/ \E found \in {"some", "none", "err"} : FindLocalFile(found)
  \/ LoadModel
  \/ LoadModelFail
  \/ ReplNext

RunSpec == RunInit /\ [][RunNext]_vars

\* A streaming request on its own: request.stream is Some(true), and the
\* steps are those of the producer and of the streaming branch.
StreamInit == Init /\ reqStream = "true"

\* What the engine emits in the streaming request: one chunk of every
\* shape, framed or not.
SseChunks == Chunks \ {DataChunk("b")}

SseNext ==
  \/ \E c \in SseChunks : EngineEmit(c)
  \/ \E i \in 1..MaxChunks : SendTask(i)
  \/ PipelineOk
  \/ \E e \in PipelineErrors : PipelineFail(e)
  \/ PipelineCrash
  \/ StreamRespond
  \/ StreamNext
  \/ StreamEnd
  \/ ClientDisconnect

\* The scheduler runs every ready task and the client keeps reading the
\* response body: the handler's steps and the spawned send tasks are taken
\* when they stay enabled. Nothing obliges the engine to emit, the pipeline
\* to return or the client to disconnect.
FairSpec ==
  /\ StreamInit /\ [][SseNext]_vars
  /\ WF_vars(StreamRespond)
  /\ WF_vars(StreamNext)
  /\ WF_vars(StreamEnd)
  /\ \A i \in 1..MaxChunks : WF_vars(SendTask(i))

\* A non-streaming request on its own: request.stream is absent or
\* Some(false), and the steps are those of the producer and of the
\* non-streaming branch.
NonStreamInit == Init /\ reqStream \in {"absent", "false"}

\* What the engine emits in the non-streaming request: a framed token
\* delta, an error frame and a bare JSON document.
JsonChunks == {DataChunk("a"), ErrorChunk("a"), <<"a">>}

NonStreamNext ==
  \/ \E c \in JsonChunks : EngineEmit(c)
  \/ \E i \in 1..MaxChunks : SendTask(i)
  \/ PipelineOk
  \/ \E e \in PipelineErrors : PipelineFail(e)
  \/ PipelineCrash
  \/ NonStreamRecv
  \/ NonStreamRespond
  \/ NonStreamClosed

\* The scheduler runs every ready task: the handler's steps and the
\* spawned send tasks are taken when they stay enabled. Nothing obliges
\* the engine to emit or the pipeline to return.
NonStreamFairSpec ==
  /\ NonStreamInit /\ [][NonStreamNext]_vars
  /\ WF_vars(NonStreamRecv)
  /\ WF_vars(NonStreamRespond)
  /\ WF_vars(NonStreamClosed)
  /\ \A i \in 1..MaxChunks : WF_vars(SendTask(i))

---------------------------------------------------------------------------
(* Properties of the chat-completion request                               *)

IsFramed(c) ==
  /\ starts_with(c, DataPrefix) \/ starts_with(c, ErrorPrefix)
  /\ strip_suffix(c, ChunkSuffix).some

\* What lies between the first token and the last one of a chunk.
Inner(c) == SubSeq(c, 2, Len(c) - 1)

SentCount == Cardinality({i \in 1..Len(sendTask) : sendTask[i] = "sent"})

\* C1: in streaming mode the SSE events delivered are, in order and with
\* none lost or duplicated, the chunks the engine callback emitted: at any
\* time the events are those of a prefix of the emitted chunks, and of all
\* of them once the stream has ended.
C1_EventsFollowEmitted ==
  stream =>
    /\ Len(events) <= Len(emitted)
    /\ \A i \in 1..Len(events) : Some(events[i]) = EventData(emitted[i])
    /\ sse = "ended" => Len(events) = Len(emitted)

C3_PipelineErrorIsTheResponse ==
  (response.kind # "none" /\ pipeline.state = "err" /\ emitted = <<>>)
  => /\ response.kind = pipeline.err
     /\ response.status = StatusOf(pipeline.err)

\* C4: non-streaming, an `error: <json>` frame as first chunk gives status
\* 500 with that error as the body; streaming, the error frame is delivered
\* as an SSE data event. (Whether the engine emits anything after an error
\* frame is not decided by this code, so "last" is not stated.)
C4_ErrorFrameIsAnError ==
  /\ (/\ ~stream /\ pc = "done"
      /\ received # <<>>
      /\ starts_with(received[1], ErrorPrefix))
     => /\ response.status = 500
        /\ response.body \in {received[1], Inner(received[1])}
  /\ stream =>
       \A i \in 1..Len(events) :
         (starts_with(received[i], ErrorPrefix) /\ IsFramed(received[i]))
         => events[i] = Inner(received[i])

\* C5: in streaming mode every chunk received that carries the `data: ` or
\* `error: ` prefix and the `\n\n` terminator produces exactly one SSE event,
\* the i-th chunk the i-th event, whose data is the chunk without prefix and
\* terminator; no chunk produces more than one event.
C5_FramedChunkOneEvent ==
  stream =>
    /\ Len(events) <= Len(received)
    /\ \A i \in 1..Len(received) :
         IsFramed(received[i])
         => /\ i <= Len(events)
            /\ events[i] = Inner(received[i])

C5_Witness ==
  /\ stream
  /\ Len(events) = 2
  /\ received = <<DataChunk("b"), ErrorChunk("a")>>

\* C6: the SSE stream ends only once every sender is dropped and every
\* chunk that was enqueued has been delivered as an event, and once the
\* pipeline task has terminated, however it did, the stream does not stay
\* open for ever.
C6_StreamEndsWhenSendersDropped ==
  /\ [](sse = "ended" =>
          /\ pipeline.state # "running"
          /\ \A i \in 1..Len(sendTask) : sendTask[i] # "pending"
          /\ queue = <<>>
          /\ Len(received) = SentCount
          /\ Len(events) = Len(received))
  /\ PipelineTerminated ~> (sse \notin {"none", "open"})

C6_Witness ==
  /\ sse = "ended"
  /\ pipeline.state = "crashed"
  /\ Len(events) = 2

\* C7: the callback returns only once its chunk is enqueued, so while the
\* receiver is open no emitted chunk is outside the channel, and the chunks
\* emitted and not yet received number at most the capacity plus one.
C7_CallbackBlocksOnSend ==
  rx = "open" =>
    /\ \A i \in 1..Len(sendTask) : sendTask[i] = "sent"
    /\ Len(emitted) <= Len(received) + ChannelCapacity + 1

\* C8: once the receiver is closed no chunk is enqueued and every send
\* attempt fails without a panic.
C8_SendAfterCloseFailsCleanly ==
  rx = "closed" =>
    /\ queue = <<>>
    /\ \A i \in 1..Len(sendTask) : sendTask[i] # "panicked"


---------------------------------------------------------------------------
(* Properties of the shared model context                                  *)

LiveInstances ==
  {i \in 1..Len(inst) : inst[i].state \in {"initializing", "live"}}

\* C9: whenever the context can be observed (no operation holds the
\* exclusive lock), has_model() is true exactly when get_gpt_params() is
\* Some(P), and P is then what the engine held by the context was
\* initialized with, that engine being live.
C9_HasModelIffParams ==
  lock.writer = "none" =>
    /\ has_model <=> get_gpt_params.some
    /\ has_model =>
         /\ inst[ctx].state = "live"
         /\ get_gpt_params = Some(inst[ctx].params)

\* After a reload from one engine to another, a completion and a try_stop
\* that failed, with the second engine live.
C9_Witness ==
  /\ lock.writer = "none"
  /\ Len(inst) >= 2
  /\ inst[1].state = "stopped"
  /\ has_model
  /\ get_gpt_params = Some("P2")
  /\ tres["t1"] = "Ok"
  /\ tres["t2"] = "EngineStop"

\* C10: at most one engine instance is initializing or live at any moment,
\* an engine is initialized only when none is in the context, and a
\* completion that is running runs on the context's engine, which is live.
C10_OneEngine ==
  /\ Cardinality(LiveInstances) <= 1
  /\ (\E i \in 1..Len(inst) : inst[i].state = "initializing") => ctx = 0
  /\ \A t \in Tasks :
       tpc[t] = "completing"
       => /\ tengine[t] = ctx
          /\ inst[ctx].state = "live"

\* In the middle of a reload from engine(P1) to engine(P2), another task
\* having completed on the first engine.
C10_Witness ==
  /\ Len(inst) = 2
  /\ inst[1] = [params |-> "P1", state |-> "stopped"]
  /\ inst[2] = [params |-> "P2", state |-> "initializing"]
  /\ \E t \in Tasks : tres[t] = "Ok" /\ tengine[t] = 1

InReload(t) ==
  tpc[t] \in {"reload_same", "reload_stop", "reload_init",
              "reload_initializing", "reload_update", "ensure_not_loaded"}

\* The engines that were brought up with parameters p.
InitializedWith(p) ==
  {i \in 1..Len(inst) : inst[i].params = p /\ inst[i].state \in {"live", "stopped"}}

\* C11: when every reload request carries the same parameters P, whatever
\* the interleaving, at most one engine is ever brought up with P, and an
\* engine is initialized again with P only after the initialization before
\* it failed; a reload that finds P live goes through no stop and no init:
\* it leaves the engine and the stored parameters as they are.
C11_EqualReloadsInitOnce ==
  /\ [](/\ Cardinality(InitializedWith(EqualParams.val)) <= 1
        /\ \A i, j \in 1..Len(inst) :
             (i < j /\ inst[i].params = EqualParams.val
                    /\ inst[j].params = EqualParams.val)
             => inst[i].state = "failed")
  /\ [][\A t \in Tasks :
         /\ (~InReload(t) /\ InReload(t)' /\ gptParams = targ'[t] /\ targ'[t].some)
            => tpc'[t] = "reload_same"
         /\ tpc[t] = "reload_same"
            => (tpc'[t] = "idle" /\ UNCHANGED <<ctx, inst, gptParams>>)]_vars

\* Both tasks have reloaded with P over an engine brought up with other
\* parameters: one of them stopped it and initialized P, the other did
\* nothing.
C11_Witness ==
  /\ \A t \in Tasks : tpc[t] = "idle" /\ targ[t] = EqualParams /\ tres[t] = "Ok"
  /\ Len(inst) = 2
  /\ inst[1] = [params |-> "P2", state |-> "stopped"]
  /\ inst[2] = [params |-> "P1", state |-> "live"]
  /\ ctx = 2

EngineIs(p) == ctx # 0 /\ inst[ctx] = [params |-> p, state |-> "live"]

\* C13: the ensure-engine step follows the reload decision rule. The step
\* that takes the decision chooses, from the state of the context and the
\* requested parameters: no-op for engine(P) with Some(P) and for engine(P)
\* with None, stop-then-init for Some(P) otherwise, failure for empty with
\* None. A no-op leaves the engine, the instances and the stored parameters
\* as they are and returns Ok; an engine is initialized only with the
\* requested parameters and only once the context is empty (the old engine
\* stopped); an ensure that returns Ok for Some(P) leaves engine(P) live
\* with P stored; the failure returns EngineNotLoaded and leaves the
\* context empty.
C13_EnsureFollowsDecisionRule ==
  [][\A t \in Tasks :
       /\ (~InReload(t) /\ InReload(t)')
          => LET p == targ'[t] IN
             /\ (ctx = 0 /\ p.some) => tpc'[t] = "reload_stop"
             /\ (ctx # 0 /\ p.some /\ EngineIs(p.val)) => tpc'[t] = "reload_same"
             /\ (ctx # 0 /\ p.some /\ ~EngineIs(p.val)) => tpc'[t] = "reload_stop"
             /\ (ctx # 0 /\ ~p.some) => tpc'[t] = "reload_same"
             /\ (ctx = 0 /\ ~p.some) => tpc'[t] = "ensure_not_loaded"
       /\ tpc[t] = "reload_same"
          => /\ UNCHANGED <<ctx, inst, gptParams>>
             /\ tpc'[t] = "idle" /\ tres'[t] = "Ok"
       /\ tpc[t] = "ensure_not_loaded"
          => /\ ctx = 0 /\ UNCHANGED <<ctx, inst, gptParams>>
             /\ gptParams = None
             /\ tpc'[t] = "idle" /\ tres'[t] = "EngineNotLoaded"
       /\ (InReload(t) /\ Len(inst') > Len(inst))
          => /\ ctx = 0
             /\ \A i \in 1..Len(inst) : inst[i].state # "live"
             /\ inst'[Len(inst')].params = targ[t].val
       /\ (tpc[t] = "reload_update" /\ tpc'[t] = "idle")
          => /\ tres'[t] = "Ok"
             /\ targ[t].some
             /\ EngineIs(targ[t].val)' /\ gptParams' = targ[t]]_vars

\* An ensure for Some(P2) over engine(P1) has stopped the first engine and
\* brought up the second, and an ensure for None on the other task then
\* found the engine and did nothing.
C13_Witness ==
  /\ inst = <<[params |-> "P1", state |-> "stopped"],
              [params |-> "P2", state |-> "live"]>>
  /\ ctx = 2 /\ gptParams = Some("P2")
  /\ tpc["t1"] = "idle" /\ targ["t1"] = Some("P2") /\ tres["t1"] = "Ok"
  /\ tpc["t2"] = "idle" /\ targ["t2"] = None /\ tres["t2"] = "Ok"

\* C14: a completion never starts on an empty context; a completion call
\* that returns at once is one on an empty context, it returns
\* EngineNotLoaded and leaves the context empty; try_stop on an empty
\* context returns Ok and changes nothing; after a try_stop that returned
\* Ok, has_model() is false and get_gpt_params() is None, the engine it
\* found being stopped.
C14_EmptyContextOperations ==
  [][\A t \in Tasks :
       /\ (tpc[t] = "idle" /\ tpc'[t] = "completing") => ctx # 0
       /\ (tpc[t] = "idle" /\ tpc'[t] = "idle" /\ tres'[t] # tres[t])
          => /\ ctx = 0
             /\ tres'[t] = "EngineNotLoaded"
             /\ UNCHANGED <<ctx, inst, gptParams>>
       /\ (tpc[t] = "try_stop" /\ ctx = 0)
          => /\ tpc'[t] = "idle" /\ tres'[t] = "Ok"
             /\ UNCHANGED <<ctx, inst, gptParams>>
       /\ (tpc[t] = "try_stop" /\ tpc'[t] = "idle" /\ tres'[t] = "Ok")
          => /\ ~has_model'
             /\ get_gpt_params' = None
             /\ \A i \in 1..Len(inst') : inst'[i].state # "live"]_vars

\* A try_stop has stopped the engine, a completion on the emptied context
\* was refused, and a second try_stop found nothing to stop.
C14_Witness ==
  /\ inst = <<[params |-> "P1", state |-> "stopped"]>>
  /\ ~has_model /\ get_gpt_params = None
  /\ tpc["t1"] = "idle" /\ tres["t1"] = "EngineNotLoaded"
  /\ tpc["t2"] = "idle" /\ tres["t2"] = "Ok"
  /\ lock = Unlocked

\* No task has called the context yet.
NoCallYet == \A t \in Tasks : tpc[t] = "idle" /\ tres[t] = "none" /\ targ[t] = None

\* C15: under serve the context starts empty and has no model as long as
\* no call was made on it; under run the context starts with the engine
\* live, brought up by the constructor, before the first call of a turn;
\* afterwards the engine, the instances and the stored parameters change
\* only in a step of a reload (the ensure-engine step of a request) or of a
\* try_stop, an engine is brought up only by a reload that was asked for a
\* model, and an engine stops being live only by being stopped in such a
\* step.
C15_LazyServeEagerRun ==
  /\ cmd = "serve" => (~has_model /\ inst = <<>> /\ get_gpt_params = None)
  /\ cmd = "run" => (has_model /\ Len(inst) = 1 /\ EngineIs(inst[1].params))
  /\ [](NoCallYet => (has_model <=> cmd = "run"))
  /\ [][/\ <<ctx, inst, gptParams>>' # <<ctx, inst, gptParams>>
           => \E t \in Tasks : InReload(t) \/ tpc[t] = "try_stop"
        /\ Len(inst') > Len(inst)
           => \E t \in Tasks :
                /\ tpc[t] = "reload_init" /\ targ[t].some
                /\ inst'[Len(inst')].params = targ[t].val
        /\ \A i \in 1..Len(inst) :
             (inst[i].state = "live" /\ inst'[i].state # "live")
             => /\ inst'[i].state = "stopped"
                /\ \E t \in Tasks : tpc[t] \in {"reload_stop", "try_stop"}]_vars

\* Under serve, the first request that asked for a model has had the
\* engine brought up, and nothing has stopped it.
C15_Witness ==
  /\ cmd = "serve"
  /\ inst = <<[params |-> "P1", state |-> "live"]>>
  /\ has_model
  /\ tpc["t1"] = "idle" /\ targ["t1"] = Some("P1") /\ tres["t1"] = "Ok"
  /\ tres["t2"] = "none"

---------------------------------------------------------------------------
(* Properties of the HTTP server's life cycle                              *)

Returned == srv \in {"ok", "err"}

\* C16: start_new signals ready at most once, and only with the listener
\* bound; when the bind fails start_new returns an error, no listener
\* exists, ready was not signalled (its awaiter finds the channel closed)
\* and it is never signalled afterwards.
C16_ReadyOnceAfterBind ==
  /\ [](/\ readyCount <= 1
        /\ readyCount = 1 => listener # "none"
        /\ readyRx = "ok" <=> readyCount = 1
        /\ srv = "err" => (readyCount = 0 /\ listener = "none" /\ readyRx = "closed"))
  /\ [][/\ readyCount' # readyCount => (listener = "bound" /\ srv # "err")
        /\ srv = "err" => (srv' = "err" /\ readyCount' = 0)]_vars

\* The server was bound, signalled ready, served every connection the
\* bound allows and returned.
C16_Witness ==
  /\ srv = "ok"
  /\ readyCount = 1
  /\ readyRx = "ok"
  /\ accepted = MaxConns

\* C17: the on_shutdown callback is invoked at most once, and only once
\* the shutdown signal was sent (or its sender dropped); when start_new has
\* returned Ok the callback was invoked exactly once and has completed,
\* its try_stop included, and the listener is closed; once start_new has
\* returned no connection is accepted; and a shutdown signal sent to a
\* running server leads to the invocation of the callback.
C17_CallbackOnceBeforeReturn ==
  /\ [](/\ cbRuns <= 1
        /\ cbRuns = 1 => shutdown \in {"sent", "dropped"}
        /\ srv = "ok" => /\ cbRuns = 1
                         /\ sig = "done"
                         /\ tpc[CbTask] = "idle"
                         /\ tres[CbTask] \in {"Ok", "EngineStop"}
                         /\ listener = "closed"
                         /\ conns = 0)
  /\ [][Returned => (accepted' = accepted /\ conns' = conns /\ srv' = srv)]_vars
  /\ (shutdown = "sent" /\ srv = "serving") ~> (cbRuns = 1)

\* A request had the engine brought up; the shutdown signal was sent, the
\* callback stopped the engine, and start_new returned.
C17_Witness ==
  /\ srv = "ok"
  /\ shutdown = "sent"
  /\ cbRuns = 1
  /\ accepted >= 1
  /\ inst = <<[params |-> "P1", state |-> "stopped"]>>
  /\ tres[CbTask] = "Ok"

\* C18: after the shutdown signal is sent, start_new eventually returns,
\* even when a request in flight never completes.
C18_ShutdownTerminates ==
  (shutdown = "sent") ~> Returned

---------------------------------------------------------------------------
(* Properties of the interactive client                                    *)

HasMessage(role, n) ==
  \E i \in 1..Len(history) : history[i] = [role |-> role, turn |-> n]

\* C19: in every turn the user message is in the history before generation
\* begins and before any assistant message of the turn, and the history
\* has an assistant message for the turn only when the pipeline call of
\* the turn returned Ok and every chunk was decoded.
C19_AssistantOnlyOnSuccess ==
  /\ turn >= 1 => HasMessage("user", turn)
  /\ \A i, j \in 1..Len(history) :
       (history[i].role = "user" /\ history[j].role = "assistant"
        /\ history[i].turn = history[j].turn) => i < j
  /\ (turn >= 1 /\ HasMessage("assistant", turn) /\ PipelineTerminated)
     => /\ pipeline.state = "ok"
        /\ \A k \in 1..Len(received) : DecodeChunk(received[k]).some

\* C20: no failure during a turn makes the client leave the read loop:
\* after a turn it is Idle again, whatever the pipeline returned and
\* whatever chunk the receiving task met.
C20_FailureReturnsToIdle ==
  /\ replPc # "failed"
  /\ (turn >= 1 /\ replPc # "generating")
     => replPc \in {"idle", "exited", "stop_failed"}

---------------------------------------------------------------------------
(* The prompt renderer: ChatMessage::from and apply_chat_template          *)

\* Template texts: a plain one, one written with the Python method calls,
\* and one the template engine rejects.
PlainTemplate == <<"{{m}}">>
PythonTemplate == <<"{{m", ".strip()", ".title()", "}}">>
BrokenTemplate == <<"{%">>
TemplateTexts == {PlainTemplate, PythonTemplate, BrokenTemplate}

\* ChatTemplateVersions: Single(String) or Multiple(Vec<ChatTemplate>)
Single(t) == [version |-> "Single", template |-> t, templates |-> <<>>]
Multiple(ts) == [version |-> "Multiple", template |-> <<>>, templates |-> ts]

NamedTemplates ==
  [name : {"default", "tool_use"}, template : {PlainTemplate, PythonTemplate}]

SeqsUpTo(S, n) == UNION {[1..k -> S] : k \in 0..n}

ChatTemplateValues ==
  {None} \cup {Some(Single(t)) : t \in TemplateTexts}
         \cup {Some(Multiple(ts)) : ts \in SeqsUpTo(NamedTemplates, MaxTemplates)}

\* ChatCompletionRequestMessage: the five variants, the user's content
\* being a text or an array of text and image parts.
TextPart(t) == [type |-> "text", text |-> t]
ImagePart == [type |-> "image", text |-> ""]
RequestMessages ==
  { [variant |-> "System", text |-> Some("s"), parts |-> <<>>],
    [variant |-> "User", text |-> Some("a"), parts |-> <<>>],
    [variant |-> "User", text |-> None,
     parts |-> <<TextPart("a"), TextPart("b")>>],
    [variant |-> "User", text |-> None,
     parts |-> <<TextPart("a"), ImagePart>>],
    [variant |-> "Assistant", text |-> Some("b"), parts |-> <<>>],
    [variant |-> "Assistant", text |-> None, parts |-> <<>>],
    [variant |-> "Tool", text |-> Some("r"), parts |-> <<>>],
    [variant |-> "Function", text |-> Some("r"), parts |-> <<>>] }

\* The fold over the parts of an array content: the texts in order;
\* an image part is unimplemented!().
RECURSIVE FoldParts(_)
FoldParts(parts) ==
  IF parts = <<>> THEN [panic |-> FALSE, text |-> <<>>]
  ELSE IF Head(parts).type = "image" THEN [panic |-> TRUE, text |-> <<>>]
  ELSE LET rest == FoldParts(Tail(parts))
       IN  [panic |-> rest.panic,
            text |-> IF rest.panic THEN <<>>
                     ELSE <<Head(parts).text>> \o rest.text]

\* unimplemented!(): the thread that converts the message panics.
Unimplemented == "panic"

\* impl From<&ChatCompletionRequestMessage> for ChatMessage
ChatMessageFrom(m) ==
  CASE m.variant = "System" ->
         [outcome |-> "ok", role |-> "system", content |-> Some(<<m.text.val>>)]
    [] m.variant = "User" /\ m.text.some ->
         [outcome |-> "ok", role |-> "user", content |-> Some(<<m.text.val>>)]
    [] m.variant = "User" /\ ~m.text.some ->
         IF FoldParts(m.parts).panic
         THEN [outcome |-> Unimplemented, role |-> "", content |-> None]
         ELSE [outcome |-> "ok", role |-> "user",
               content |-> Some(FoldParts(m.parts).text)]
    [] m.variant = "Assistant" ->
         [outcome |-> "ok", role |-> "assistant",
          content |-> IF m.text.some THEN Some(<<m.text.val>>) ELSE None]
    [] OTHER ->
         [outcome |-> Unimplemented, role |-> "", content |-> None]

\* The selection that takes the first entry of a named set.
SelectTemplate_First(ct) ==
  IF ~ct.some THEN None
  ELSE IF ct.val.version = "Single" THEN Some(ct.val.template)
  ELSE IF ct.val.templates # <<>> THEN Some(ct.val.templates[1].template)
  ELSE None

\* chat_template.and_then(..): the single text, or the template of the
\* first entry whose name is "default".
SelectTemplate(ct) ==
  IF ~ct.some THEN None
  ELSE IF ct.val.version = "Single" THEN Some(ct.val.template)
  ELSE LET ts == ct.val.templates
           ds == {i \in 1..Len(ts) : ts[i].name = "default"}
       IN  IF ds = {} THEN None
           ELSE Some(ts[CHOOSE i \in ds : \A j \in ds : i <= j].template)

\* .replace(".strip()", " | trim").replace(".title()", " | title")
ReplaceMethods(t) ==
  [i \in 1..Len(t) |->
     CASE t[i] = ".strip()" -> " | trim"
       [] t[i] = ".title()" -> " | title"
       [] OTHER -> t[i]]

\* apply_chat_template: select, rewrite, compile, convert, render.
ApplyChatTemplateResult(config, messages) ==
  LET selected == SelectTemplate(config.chat_template)
      converted == [i \in 1..Len(messages) |-> ChatMessageFrom(messages[i])]
  IN  IF ~selected.some
      THEN [kind |-> "Err", err |-> "chat_template not found", prompt |-> <<>>]
      ELSE IF ReplaceMethods(selected.val) = BrokenTemplate
      THEN [kind |-> "Err", err |-> "syntax error", prompt |-> <<>>]
      ELSE IF \E i \in 1..Len(converted) : converted[i].outcome = "panic"
      THEN [kind |-> "Panic", err |-> "not implemented", prompt |-> <<>>]
      ELSE [kind |-> "Ok", err |-> "",
            prompt |-> <<[template |-> ReplaceMethods(selected.val),
                          messages |-> [i \in 1..Len(converted) |->
                                          [role |-> converted[i].role,
                                           content |-> converted[i].content]],
                          bos_token |-> config.bos_token,
                          eos_token |-> config.eos_token,
                          add_generation_prompt |-> TRUE]>>]

\* The request's messages and the tokenizer configuration of its alias.
TmplInit ==
  /\ ChatIdle
  /\ NewSharedRw(ServeInitial)
  /\ ServerNew
  /\ ReplOff
  /\ cmd = "serve"
  /\ tcConfig \in [chat_template : ChatTemplateValues,
                   bos_token : {Some("<s>")}, eos_token : {Some("</s>")}]
  /\ tcMessages \in SeqsUpTo(RequestMessages, MaxMsgs)
  /\ tcOut = NoOut
  /\ CmdOff
  /\ DbNew

ApplyChatTemplate ==
  /\ tcOut = NoOut
  /\ tcOut' = ApplyChatTemplateResult(tcConfig, tcMessages)
  /\ UNCHANGED <<tcConfig, tcMessages>>
  /\ UNCHANGED <<chatVars, smcVars, srvVars, replVars, runVars, cmdVars, dbVars>>

TmplNext == ApplyChatTemplate

TmplSpec == TmplInit /\ [][TmplNext]_vars

---------------------------------------------------------------------------
(* The pull and create commands: Pull::execute, CreateCommand::execute     *)

TOKENIZER_CONFIG_JSON == "tokenizer_config.json"

\* ChatTemplate: a built-in template id or a tokenizer-config repo.
TemplateId(id) == [kind |-> "Id", val |-> id]
TemplateRepo(repo) == [kind |-> "Repo", val |-> repo]

\* The remote catalog: a1 is known, a2 is not.
RemoteCatalog(alias) ==
  IF alias = "a1"
  THEN Some([alias |-> "a1", repo |-> "R1", filename |-> "m1.gguf",
             chat_template |-> TemplateId("llama3")])
  ELSE None

\* Snapshots a download can resolve the file to.
Snapshots == {"s1", "s2"}

\* An alias saved by an earlier command.
OldAlias(n) ==
  [alias |-> n, repo |-> "R0", filename |-> "m0.gguf", snapshot |-> "s0",
   chat_template |-> TemplateId("llama3")]

\* impl From<RemoteModel> for Alias
AliasFromRemote(model) ==
  [alias |-> model.alias, repo |-> model.repo, filename |-> model.filename,
   snapshot |-> "main", chat_template |-> model.chat_template]

\* Alias::new(..) as CreateCommand::execute calls it.
AliasNew(c, snapshot) ==
  [alias |-> c.alias, repo |-> c.repo, filename |-> c.filename,
   snapshot |-> snapshot, chat_template |-> c.chat_template]

\* The values Pull::new builds.
PullCommands ==
  {[op |-> "ByAlias", alias |-> a, repo |-> "", filename |-> "",
    force |-> f, chat_template |-> TemplateId("")]
     : a \in AliasNames, f \in BOOLEAN}
  \cup
  {[op |-> "ByRepoFile", alias |-> "", repo |-> "R2", filename |-> fl,
    force |-> f, chat_template |-> TemplateId("")]
     : fl \in {"m2.gguf", "m3.gguf"}, f \in BOOLEAN}

\* The values CreateCommand::try_from builds.
CreateCommands ==
  {[op |-> "Create", alias |-> a, repo |-> "R2", filename |-> "m2.gguf",
    force |-> f, chat_template |-> t]
     : a \in AliasNames, f \in BOOLEAN,
       t \in {TemplateId("llama3"), TemplateRepo("T1")}}

\* A call on the service and what it returned.
Call(fn, args, ret) == [fn |-> fn, args |-> args, ret |-> ret]

\* A command and the registry it finds.
CmdInit ==
  /\ ChatIdle
  /\ NewSharedRw(ServeInitial)
  /\ ServerNew
  /\ ReplOff
  /\ cmd = "serve"
  /\ TmplOff
  /\ DbNew
  /\ command \in PullCommands \cup CreateCommands
  /\ aliasStore \in [AliasNames -> {None} \cup {Some(OldAlias(n)) : n \in AliasNames}]
  /\ \A n \in AliasNames : aliasStore[n].some => aliasStore[n].val.alias = n
  /\ calls = <<>>
  /\ cmdPc = "start"
  /\ remoteModel = None
  /\ localFile = None
  /\ cmdResult = "none"

CmdFrame ==
  UNCHANGED <<chatVars, smcVars, srvVars, replVars, runVars, tmplVars, dbVars>>

Done(result) ==
  /\ cmdPc' = "done"
  /\ cmdResult' = result

\* A pull by alias that goes on although the alias exists.
PullRefuses_Never(force, found) == FALSE

\* !force && service.find_alias(&alias).is_some(), given what find_alias
\* found when it was called
PullRefuses(force, found) == ~force /\ found

\* Pull::ByAlias: the check of the existing alias; find_alias is called
\* only when force is false.
PullCheckExisting ==
  /\ cmdPc = "start"
  /\ command.op = "ByAlias"
  /\ calls' = IF ~command.force
              THEN Append(calls, Call("find_alias", <<command.alias>>,
                     IF aliasStore[command.alias].some THEN "Some" ELSE "None"))
              ELSE calls
  /\ IF PullRefuses(command.force, aliasStore[command.alias].some)
     THEN Done("AliasExists")
     ELSE cmdPc' = "find_remote" /\ UNCHANGED cmdResult
  /\ UNCHANGED <<command, aliasStore, remoteModel, localFile>>
  /\ CmdFrame

\* Pull::ByAlias: find_remote_model fails, finds nothing, or finds the model.
PullFindRemote(ok) ==
  /\ cmdPc = "find_remote"
  /\ calls' = Append(calls, Call("find_remote_model", <<command.alias>>,
                 IF ~ok THEN "Err"
                 ELSE IF RemoteCatalog(command.alias).some THEN "Some"
                 ELSE "None"))
  /\ IF ~ok
     THEN Done("DataService") /\ UNCHANGED remoteModel
     ELSE IF ~RemoteCatalog(command.alias).some
     THEN Done("AliasNotFound") /\ UNCHANGED remoteModel
     ELSE /\ remoteModel' = RemoteCatalog(command.alias)
          /\ cmdPc' = "download"
          /\ UNCHANGED cmdResult
  /\ UNCHANGED <<command, aliasStore, localFile>>
  /\ CmdFrame

\* A pull that saves the alias whatever the download returned.
PullAfterDownload_Always(ok) == TRUE

\* service.download(..)?: the alias is saved only after an Ok.
PullAfterDownload(ok) == ok

\* Pull::ByAlias: the download of the remote model's file.
PullDownload(ok) ==
  /\ cmdPc = "download"
  /\ command.op = "ByAlias"
  /\ calls' = Append(calls, Call("download",
                 <<remoteModel.val.repo, remoteModel.val.filename,
                   command.force>>, IF ok THEN "Ok" ELSE "Err"))
  /\ IF PullAfterDownload(ok)
     THEN cmdPc' = "save" /\ UNCHANGED cmdResult
     ELSE Done("HubService")
  /\ UNCHANGED <<command, aliasStore, remoteModel, localFile>>
  /\ CmdFrame

\* Pull::ByAlias: save_alias of the alias made from the remote model.
PullSave(ok) ==
  /\ cmdPc = "save"
  /\ command.op = "ByAlias"
  /\ LET new_alias == AliasFromRemote(remoteModel.val)
     IN  /\ calls' = Append(calls, Call("save_alias", <<new_alias>>,
                                   IF ok THEN "Ok" ELSE "Err"))
         /\ aliasStore' = IF ok
                          THEN [aliasStore EXCEPT ![new_alias.alias] = Some(new_alias)]
                          ELSE aliasStore
  /\ Done(IF ok THEN "Ok" ELSE "DataService")
  /\ UNCHANGED <<command, remoteModel, localFile>>
  /\ CmdFrame

\* A pull by repo and file that always forces the download.
RepoFileForce_Always(c) == TRUE

\* The force flag Pull::ByRepoFile hands to download.
RepoFileForce(c) == c.force

\* Pull::ByRepoFile: the download and nothing else.
PullRepoFile(ok) ==
  /\ cmdPc = "start"
  /\ command.op = "ByRepoFile"
  /\ calls' = Append(calls, Call("download",
                 <<command.repo, command.filename, RepoFileForce(command)>>,
                 IF ok THEN "Ok" ELSE "Err"))
  /\ Done(IF ok THEN "Ok" ELSE "HubService")
  /\ UNCHANGED <<command, aliasStore, remoteModel, localFile>>
  /\ CmdFrame

\* A create that goes on although the alias exists.
CreateRefuses_Never(force, found) == FALSE

\* !self.force && service.find_alias(&self.alias).is_some()
CreateRefuses(force, found) == ~force /\ found

\* CreateCommand::execute: the check of the existing alias.
CreateCheckExisting ==
  /\ cmdPc = "start"
  /\ command.op = "Create"
  /\ calls' = IF ~command.force
              THEN Append(calls, Call("find_alias", <<command.alias>>,
                     IF aliasStore[command.alias].some THEN "Some" ELSE "None"))
              ELSE calls
  /\ IF CreateRefuses(command.force, aliasStore[command.alias].some)
     THEN Done("AliasExists")
     ELSE cmdPc' = "download" /\ UNCHANGED cmdResult
  /\ UNCHANGED <<command, aliasStore, remoteModel, localFile>>
  /\ CmdFrame

\* CreateCommand::execute: the download of the model file; r is the
\* snapshot the file was resolved to, or "err".
CreateDownload(r) ==
  /\ cmdPc = "download"
  /\ command.op = "Create"
  /\ calls' = Append(calls, Call("download",
                 <<command.repo, command.filename, command.force>>,
                 IF r = "err" THEN "Err" ELSE r))
  /\ IF r = "err"
     THEN Done("HubService") /\ UNCHANGED localFile
     ELSE /\ localFile' = Some(r)
          /\ cmdPc' = IF command.chat_template.kind = "Repo"
                      THEN "tokenizer" ELSE "save"
          /\ UNCHANGED cmdResult
  /\ UNCHANGED <<command, aliasStore, remoteModel>>
  /\ CmdFrame

\* A create that downloads the tokenizer configuration without force.
TokenizerForce_Never == FALSE

\* service.download(repo, TOKENIZER_CONFIG_JSON, true)
TokenizerForce == TRUE

\* CreateCommand::execute: the download of tokenizer_config.json from the
\* chat template's repo.
CreateTokenizer(ok) ==
  /\ cmdPc = "tokenizer"
  /\ calls' = Append(calls, Call("download",
                 <<command.chat_template.val, TOKENIZER_CONFIG_JSON,
                   TokenizerForce>>, IF ok THEN "Ok" ELSE "Err"))
  /\ IF ok
     THEN cmdPc' = "save" /\ UNCHANGED cmdResult
     ELSE Done("HubService")
  /\ UNCHANGED <<command, aliasStore, remoteModel, localFile>>
  /\ CmdFrame

\* CreateCommand::execute: the alias is built and saved.
CreateSave(ok) ==
  /\ cmdPc = "save"
  /\ command.op = "Create"
  /\ LET alias == AliasNew(command, localFile.val)
     IN  /\ calls' = Append(calls, Call("save_alias", <<alias>>,
                                   IF ok THEN "Ok" ELSE "Err"))
         /\ aliasStore' = IF ok
                          THEN [aliasStore EXCEPT ![alias.alias] = Some(alias)]
                          ELSE aliasStore
  /\ Done(IF ok THEN "Ok" ELSE "DataService")
  /\ UNCHANGED <<command, remoteModel, localFile>>
  /\ CmdFrame

CmdNext ==
  \/ PullCheckExisting
  \/ \E ok \in BOOLEAN : PullFindRemote(ok)
  \/ \E ok \in BOOLEAN : PullDownload(ok)
  \/ \E ok \in BOOLEAN : PullSave(ok)
  \/ \E ok \in BOOLEAN : PullRepoFile(ok)
  \/ CreateCheckExisting
  \/ \E r \in Snapshots \cup {"err"} : CreateDownload(r)
  \/ \E ok \in BOOLEAN : CreateTokenizer(ok)
  \/ \E ok \in BOOLEAN : CreateSave(ok)

CmdSpec == CmdInit /\ [][CmdNext]_vars

---------------------------------------------------------------------------
(* The conversation store: DbService::save_conversation                    *)

\* DateTime<Utc> values: seconds since the epoch and nanoseconds.
DateTime(secs, nanos) == [secs |-> secs, nanos |-> nanos]

\* DateTime::timestamp: the whole seconds.
timestamp(dt) == dt.secs

\* DateTime::from_timestamp(secs, 0)
from_timestamp(secs) == DateTime(secs, 0)

\* TimeService::utc_now: the clock's reading with its nanoseconds set to 0.
utc_now(reading) == DateTime(reading.secs, 0)

\* What the clock reads when a save is made.
ClockReadings == {DateTime(3, 9), DateTime(4, 2)}

\* The conversations handed to save_conversation.
ConversationIds == {"c1", "c2"}
Titles == {"test chat", "new test chat"}
CreatedAts == {DateTime(1, 0), DateTime(2, 7)}
Conversations ==
  [id : ConversationIds, title : Titles, created_at : CreatedAts]

\* An insert that never meets a conflict.
ConflictRows_None(table, id) == {}

\* ON CONFLICT(id): the rows that already have the id.
ConflictRows(table, id) == {r \in table : r.id = id}

\* INSERT .. VALUES (id, title, created_at, updated_at)
\* ON CONFLICT(id) DO UPDATE SET title = ?, updated_at = ?
Upsert(table, c) ==
  LET old == ConflictRows(table, c.id)
  IN  IF old = {}
      THEN table \cup {[id |-> c.id, title |-> c.title,
                        created_at |-> timestamp(c.created_at),
                        updated_at |-> timestamp(c.updated_at)]}
      ELSE (table \ old)
             \cup {[r EXCEPT !.title = c.title,
                             !.updated_at = timestamp(c.updated_at)] : r \in old}

\* list_conversations: the rows as Conversation values.
list_conversations ==
  {[id |-> r.id, title |-> r.title,
    created_at |-> from_timestamp(r.created_at),
    updated_at |-> from_timestamp(r.updated_at)] : r \in rows}

DbInit ==
  /\ ChatIdle
  /\ NewSharedRw(ServeInitial)
  /\ ServerNew
  /\ ReplOff
  /\ cmd = "serve"
  /\ TmplOff
  /\ CmdOff
  /\ DbNew

DbFrame ==
  UNCHANGED <<chatVars, smcVars, srvVars, replVars, runVars, tmplVars, cmdVars>>

\* save_conversation: updated_at is set from the time service and the row
\* is inserted or updated.
SaveConversation(c, reading) ==
  /\ Len(saves) < MaxSaves
  /\ LET conversation == [id |-> c.id, title |-> c.title,
                          created_at |-> c.created_at,
                          updated_at |-> utc_now(reading)]
     IN  /\ rows' = Upsert(rows, conversation)
         /\ saves' = Append(saves, [ok |-> TRUE, conversation |-> conversation])
  /\ UNCHANGED <<msgs, dpc, lastOp, nOps>>
  /\ DbFrame

\* save_conversation when the statement fails: the error is returned and
\* the table is as it was.
SaveConversationFail(c, reading) ==
  /\ Len(saves) < MaxSaves
  /\ saves' = Append(saves,
       [ok |-> FALSE,
        conversation |-> [id |-> c.id, title |-> c.title,
                          created_at |-> c.created_at,
                          updated_at |-> utc_now(reading)]])
  /\ UNCHANGED <<rows, msgs, dpc, lastOp, nOps>>
  /\ DbFrame

DbNext ==
  \/ \E c \in Conversations, reading \in ClockReadings :
       SaveConversation(c, reading)
  \/ \E c \in Conversations, reading \in ClockReadings :
       SaveConversationFail(c, reading)

DbSpec == DbInit /\ [][DbNext]_vars

---------------------------------------------------------------------------
(* The conversation store under concurrent requests                        *)

\* The schema of the messages table: id is the primary key and
\* conversation_id is a TEXT column that no foreign key ties to the
\* conversations table.
ForeignKeys == FALSE

\* The messages handed to save_message. role, name and content are bound
\* and updated together: content stands for the three.
MessageIds == {"m1", "m2"}
Contents == {"test message", "edited"}
Messages ==
  [id : MessageIds, conversation_id : ConversationIds, content : Contents,
   created_at : {DateTime(2, 7)}]

\* What the clock reads when the next call is made.
StoreClock == DateTime(3 + nOps, 9)

\* sqlx's error of fetch_one on an empty result.
RowNotFound ==
  "no rows returned by a query that expected to return at least one row"

\* An insert that leaves the stored row alone on a conflict.
UpsertMessage_Ignore(table, m) ==
  IF ConflictRows(table, m.id) = {}
  THEN table \cup {[id |-> m.id, conversation_id |-> m.conversation_id,
                    content |-> m.content,
                    created_at |-> timestamp(m.created_at),
                    updated_at |-> timestamp(m.updated_at)]}
  ELSE table

\* INSERT INTO messages .. VALUES (id, conversation_id, role, name, content,
\* created_at, updated_at)
\* ON CONFLICT(id) DO UPDATE SET role = ?, name = ?, content = ?, updated_at = ?
UpsertMessage(table, m) ==
  LET old == ConflictRows(table, m.id)
  IN  IF old = {}
      THEN table \cup {[id |-> m.id, conversation_id |-> m.conversation_id,
                        content |-> m.content,
                        created_at |-> timestamp(m.created_at),
                        updated_at |-> timestamp(m.updated_at)]}
      ELSE (table \ old)
             \cup {[r EXCEPT !.content = m.content,
                             !.updated_at = timestamp(m.updated_at)] : r \in old}

\* A row of the messages table as a Message value.
MessageFromRow(r) ==
  [id |-> r.id, conversation_id |-> r.conversation_id, content |-> r.content,
   created_at |-> from_timestamp(r.created_at),
   updated_at |-> from_timestamp(r.updated_at)]

\* DELETE FROM messages where conversation_id = ?, and a delete that
\* leaves the messages where they are.
MessagesAfterDelete_Kept(table, id) == table
MessagesAfterDelete(table, id) == {r \in table : r.conversation_id # id}

\* get_conversation_with_messages: the messages of the conversation, then
\* the conversation's row, which must be there.
get_conversation_with_messages(id) ==
  LET messages == {MessageFromRow(r) : r \in {x \in msgs : x.conversation_id = id}}
      found == {r \in rows : r.id = id}
  IN  IF found = {}
      THEN [kind |-> "Err", err |-> RowNotFound]
      ELSE LET row == CHOOSE r \in found : TRUE
           IN  [kind |-> "Ok",
                conversation |->
                  [id |-> row.id, title |-> row.title,
                   created_at |-> from_timestamp(row.created_at),
                   updated_at |-> from_timestamp(row.updated_at),
                   messages |-> messages]]

StoreInit == DbInit

StoreFrame ==
  /\ UNCHANGED saves
  /\ DbFrame

\* A task that is not inside a call starts one.
StartsCall(t) ==
  /\ dpc[t].at = "idle"
  /\ nOps < MaxDbOps
  /\ nOps' = nOps + 1

\* save_conversation by one of the store's users.
StoreSaveConversation(t, c) ==
  /\ StartsCall(t)
  /\ LET conversation == [id |-> c.id, title |-> c.title,
                          created_at |-> c.created_at,
                          updated_at |-> utc_now(StoreClock)]
     IN  /\ rows' = Upsert(rows, conversation)
         /\ lastOp' = [op |-> "save_conversation", arg |-> conversation,
                       ret |-> "Ok"]
  /\ UNCHANGED <<msgs, dpc>>
  /\ StoreFrame

\* save_message: updated_at is set from the time service and the row is
\* inserted or updated; nothing is asked of the conversations table.
StoreSaveMessage(t, m) ==
  /\ StartsCall(t)
  /\ ForeignKeys => \E r \in rows : r.id = m.conversation_id
  /\ LET saved == [id |-> m.id, conversation_id |-> m.conversation_id,
                   content |-> m.content, created_at |-> m.created_at,
                   updated_at |-> utc_now(StoreClock)]
     IN  /\ msgs' = UpsertMessage(msgs, saved)
         /\ lastOp' = [op |-> "save_message", arg |-> saved, ret |-> "Ok"]
  /\ UNCHANGED <<rows, dpc>>
  /\ StoreFrame

\* get_conversation_with_messages by one of the store's users.
GetConversation(t, id) ==
  /\ StartsCall(t)
  /\ lastOp' = [op |-> "get_conversation_with_messages", arg |-> id,
                ret |-> get_conversation_with_messages(id)]
  /\ UNCHANGED <<rows, msgs, dpc>>
  /\ StoreFrame

\* delete_conversations, first statement: the conversation's messages go.
DeleteMessagesOf(t, id) ==
  /\ StartsCall(t)
  /\ msgs' = MessagesAfterDelete(msgs, id)
  /\ dpc' = [dpc EXCEPT ![t] = [at |-> "conversation", id |-> id]]
  /\ lastOp' = [op |-> "delete_messages", arg |-> id, ret |-> "pending"]
  /\ UNCHANGED rows
  /\ StoreFrame

\* delete_conversations, second statement: the conversation's row goes
\* and the call returns Ok.
DeleteConversationRow(t) ==
  /\ dpc[t].at = "conversation"
  /\ ForeignKeys => \A r \in msgs : r.conversation_id # dpc[t].id
  /\ rows' = {r \in rows : r.id # dpc[t].id}
  /\ dpc' = [dpc EXCEPT ![t] = [at |-> "idle"]]
  /\ lastOp' = [op |-> "delete_conversations", arg |-> dpc[t].id, ret |-> "Ok"]
  /\ UNCHANGED <<msgs, nOps>>
  /\ StoreFrame

\* delete_all_conversations, first statement: every message goes.
DeleteAllMessages(t) ==
  /\ StartsCall(t)
  /\ msgs' = {}
  /\ dpc' = [dpc EXCEPT ![t] = [at |-> "conversations"]]
  /\ lastOp' = [op |-> "delete_all_messages", arg |-> "", ret |-> "pending"]
  /\ UNCHANGED rows
  /\ StoreFrame

\* delete_all_conversations, second statement: every conversation goes and
\* the call returns Ok.
DeleteAllConversationRows(t) ==
  /\ dpc[t].at = "conversations"
  /\ ForeignKeys => msgs = {}
  /\ rows' = {}
  /\ dpc' = [dpc EXCEPT ![t] = [at |-> "idle"]]
  /\ lastOp' = [op |-> "delete_all_conversations", arg |-> "", ret |-> "Ok"]
  /\ UNCHANGED <<msgs, nOps>>
  /\ StoreFrame

\* The second statement of a delete fails: the error is returned through
\* `?` and what the first statement removed stays removed.
DeleteSecondFails(t) ==
  /\ dpc[t].at \in {"conversation", "conversations"}
  /\ dpc' = [dpc EXCEPT ![t] = [at |-> "idle"]]
  /\ lastOp' = [op |-> IF dpc[t].at = "conversation"
                       THEN "delete_conversations"
                       ELSE "delete_all_conversations",
                arg |-> IF dpc[t].at = "conversation" THEN dpc[t].id ELSE "",
                ret |-> "Err"]
  /\ UNCHANGED <<rows, msgs, nOps>>
  /\ StoreFrame

StoreNext ==
  \E t \in StoreTasks :
    \/ \E c \in Conversations : StoreSaveConversation(t, c)
    \/ \E m \in Messages : StoreSaveMessage(t, m)
    \/ \E id \in ConversationIds : GetConversation(t, id)
    \/ \E id \in ConversationIds : DeleteMessagesOf(t, id)
    \/ DeleteConversationRow(t)
    \/ DeleteAllMessages(t)
    \/ DeleteAllConversationRows(t)
    \/ DeleteSecondFails(t)

StoreSpec == StoreInit /\ [][StoreNext]_vars

---------------------------------------------------------------------------
(* Properties of Interactive::execute as a whole                           *)

\* execute has returned to its caller.
ExecuteReturned == execResult.kind # "none"

\* An engine was brought up by this run.
EngineWasLoaded == inst # <<>>

\* C21: whenever execute returns after its engine was loaded, through /bye
\* or through a failure in a turn, try_stop has been called on the context.
C21_TryStopBeforeReturn ==
  (ExecuteReturned /\ EngineWasLoaded) => stopCalls >= 1

\* C22: when find_local_file returns None, execute fails with FileMissing
\* whose filename is the alias's file and whose dirname is the rest of the
\* file's directory after hf_home, and at that point no engine was
\* initialized and no input was read.
C22_FileMissingBeforeEngine ==
  replPc = "file_missing" =>
    /\ execResult.kind = "FileMissing"
    /\ execResult.filename = <<AliasFilename>>
    /\ hfHome \o execResult.dirname \o <<Sep>> \o execResult.filename
         = model_file_path(AliasRepo, AliasFilename, AliasSnapshot)
    /\ inst = <<>> /\ ctx = 0
    /\ turn = 0 /\ history = <<>>
    /\ stopCalls = 0

C22_Witness ==
  /\ replPc = "file_missing"
  /\ execResult.kind = "FileMissing"
  /\ hfHome[Len(hfHome)] = Sep

---------------------------------------------------------------------------
(* Properties of the prompt renderer                                       *)

\* A message the renderer does not support: an image part, or the tool or
\* function role.
Unsupported(m) ==
  \/ m.variant \in {"Tool", "Function"}
  \/ \E i \in 1..Len(m.parts) : m.parts[i].type = "image"

\* The template is there and compiles, so the messages are converted.
MessagesConverted ==
  /\ tcOut # NoOut
  /\ tcOut.err \notin {"chat_template not found", "syntax error"}

\* C23: a request with an image part or with a tool or function message
\* makes the rendering fail with an error value, never with a panic of
\* the task that converts the messages.
C23_UnsupportedIsError ==
  (MessagesConverted /\ \E i \in 1..Len(tcMessages) : Unsupported(tcMessages[i]))
    => tcOut.kind = "Err"

\* The entries of a named set that are called "default".
Defaults(ts) == {i \in 1..Len(ts) : ts[i].name = "default"}

\* C24: a single-string chat_template is the template compiled (after the
\* two rewritings); a named set gives the template of its entry named
\* default; a missing chat_template, or a named set with no default entry,
\* fails with the template-missing error and renders nothing.
C24_TemplateSelection ==
  LET ct == tcConfig.chat_template
      Uses(t) == /\ tcOut.err # "chat_template not found"
                 /\ tcOut.kind = "Ok"
                      => tcOut.prompt[1].template = ReplaceMethods(t)
                 /\ tcOut.err = "syntax error"
                      <=> ReplaceMethods(t) = BrokenTemplate
      Missing == /\ tcOut.kind = "Err"
                 /\ tcOut.err = "chat_template not found"
                 /\ tcOut.prompt = <<>>
  IN  tcOut # NoOut =>
        CASE ~ct.some -> Missing
          [] ct.val.version = "Single" -> Uses(ct.val.template)
          [] Defaults(ct.val.templates) = {} -> Missing
          [] OTHER ->
               \E i \in Defaults(ct.val.templates) :
                 Uses(ct.val.templates[i].template)

C24_Witness ==
  /\ tcOut.kind = "Ok"
  /\ tcConfig.chat_template.some
  /\ tcConfig.chat_template.val.version = "Multiple"
  /\ Len(tcConfig.chat_template.val.templates) = 2
  /\ tcConfig.chat_template.val.templates[1].name = "tool_use"
  /\ tcConfig.chat_template.val.templates[2].name = "default"
  /\ tcConfig.chat_template.val.templates[1].template
       # tcConfig.chat_template.val.templates[2].template
  /\ tcMessages # <<>>

---------------------------------------------------------------------------
(* Properties of the pull and create commands                              *)

\* The positions in the log of the calls of one service function.
CallsOf(fn) == {i \in 1..Len(calls) : calls[i].fn = fn}

\* C25: a pull by alias without force of an alias that exists locally
\* returns AliasExists and makes no remote lookup, no download and no save.
C25_PullExistingRefused ==
  (command.op = "ByAlias" /\ ~command.force /\ aliasStore[command.alias].some)
    => [](command.op = "ByAlias" =>
            /\ CallsOf("find_remote_model") = {}
            /\ CallsOf("download") = {}
            /\ CallsOf("save_alias") = {}
            /\ cmdResult \in {"none", "AliasExists"}
            /\ cmdPc = "done" => cmdResult = "AliasExists"
            /\ aliasStore[command.alias] = Some(OldAlias(command.alias)))

C25_Witness ==
  /\ command.op = "ByAlias"
  /\ cmdPc = "done"
  /\ cmdResult = "AliasExists"
  /\ calls = <<Call("find_alias", <<command.alias>>, "Some")>>

\* C26: a pull by alias makes at most one download, of the remote model's
\* repo and file with the command's force flag, and at most one save, of
\* the alias made from the remote model, after a download that succeeded;
\* it returns Ok only after both. When the remote catalog does not know
\* the alias there is no download and no save, and the pull that passed
\* the check of the existing alias and got an answer returns AliasNotFound.
C26_PullDownloadsThenSaves ==
  command.op = "ByAlias" =>
    LET model == RemoteCatalog(command.alias)
        d == CallsOf("download")
        sv == CallsOf("save_alias")
    IN  /\ Cardinality(d) <= 1 /\ Cardinality(sv) <= 1
        /\ \A i \in d :
             /\ model.some
             /\ calls[i].args
                  = <<model.val.repo, model.val.filename, command.force>>
        /\ \A j \in sv :
             /\ calls[j].args = <<AliasFromRemote(model.val)>>
             /\ \E i \in d : i < j /\ calls[i].ret = "Ok"
        /\ cmdResult = "Ok" =>
             /\ Cardinality(d) = 1 /\ Cardinality(sv) = 1
             /\ aliasStore[command.alias] = Some(AliasFromRemote(model.val))
        /\ ~model.some =>
             /\ d = {} /\ sv = {}
             /\ (/\ cmdPc = "done"
                 /\ \E i \in CallsOf("find_remote_model") : calls[i].ret = "None")
                => cmdResult = "AliasNotFound"

C26_Witness ==
  /\ command.op = "ByAlias"
  /\ command.force
  /\ cmdResult = "Ok"
  /\ Len(calls) = 3

\* C27: a pull by repo and file makes one call, the download of that repo
\* and file with the command's force flag, and neither reads nor writes
\* the alias registry.
C27_PullRepoFileOnlyDownloads ==
  /\ [](command.op = "ByRepoFile" =>
          /\ \A i \in 1..Len(calls) :
               /\ calls[i].fn = "download"
               /\ calls[i].args
                    = <<command.repo, command.filename, command.force>>
          /\ Len(calls) = IF cmdPc = "done" THEN 1 ELSE 0)
  /\ [][command.op = "ByRepoFile" => aliasStore' = aliasStore]_vars

C27_Witness ==
  /\ command.op = "ByRepoFile"
  /\ command.force
  /\ cmdResult = "Ok"
  /\ Len(calls) = 1

\* C28: a create without force of an alias name that exists returns
\* AliasExists, downloads nothing and saves nothing: the alias is as it was.
C28_CreateExistingRefused ==
  (command.op = "Create" /\ ~command.force /\ aliasStore[command.alias].some)
    => [](command.op = "Create" =>
            /\ CallsOf("download") = {}
            /\ CallsOf("save_alias") = {}
            /\ cmdResult \in {"none", "AliasExists"}
            /\ cmdPc = "done" => cmdResult = "AliasExists"
            /\ aliasStore[command.alias] = Some(OldAlias(command.alias)))

C28_Witness ==
  /\ command.op = "Create"
  /\ cmdPc = "done"
  /\ cmdResult = "AliasExists"
  /\ aliasStore[command.alias] = Some(OldAlias(command.alias))

\* C29: create first downloads the model file with the command's force
\* flag; with a tokenizer-config repo it then downloads tokenizer_config.json
\* from that repo with force = true, and with a template id it downloads
\* nothing else; it saves one alias, only after every download succeeded,
\* and the alias has the snapshot of the downloaded model file.
C29_CreateDownloadsThenSaves ==
  command.op = "Create" =>
    LET d == CallsOf("download")
        sv == CallsOf("save_alias")
        isRepo == command.chat_template.kind = "Repo"
        first == CHOOSE i \in d : \A k \in d : i <= k
    IN  /\ Cardinality(sv) <= 1
        /\ Cardinality(d) <= IF isRepo THEN 2 ELSE 1
        /\ d # {} =>
             calls[first].args
               = <<command.repo, command.filename, command.force>>
        /\ \A i \in d : i # first =>
             /\ calls[first].ret # "Err"
             /\ calls[i].args
                  = <<command.chat_template.val, TOKENIZER_CONFIG_JSON, TRUE>>
        /\ \A j \in sv :
             /\ j = Len(calls)
             /\ d # {}
             /\ Cardinality(d) = IF isRepo THEN 2 ELSE 1
             /\ \A i \in d : i < j /\ calls[i].ret # "Err"
             /\ calls[j].args[1].snapshot = calls[first].ret
             /\ calls[j].args[1] = AliasNew(command, calls[first].ret)
        /\ cmdResult = "Ok" =>
             /\ Cardinality(sv) = 1 /\ d # {}
             /\ aliasStore[command.alias]
                  = Some(AliasNew(command, calls[first].ret))

C29_Witness ==
  /\ command.op = "Create"
  /\ command.chat_template.kind = "Repo"
  /\ cmdResult = "Ok"
  /\ Cardinality(CallsOf("download")) = 2
  /\ aliasStore[command.alias].val.snapshot = "s2"

---------------------------------------------------------------------------
(* Properties of the conversation store                                    *)

\* The saves of an id that were carried out, by position in the log.
SavesOf(id) ==
  {i \in 1..Len(saves) : saves[i].ok /\ saves[i].conversation.id = id}

\* C30: after any sequence of saves the store holds one conversation per
\* saved id and none for another id; its title and updated_at are those of
\* the latest save of the id and its created_at that of the first, each
\* time in whole seconds as the table keeps them.
C30_OneRowPerIdLatestWins ==
  \A id \in ConversationIds :
    LET sv == SavesOf(id)
        first == CHOOSE i \in sv : \A k \in sv : i <= k
        last == CHOOSE i \in sv : \A k \in sv : i >= k
        found == {c \in list_conversations : c.id = id}
    IN  IF sv = {}
        THEN found = {}
        ELSE found =
               {[id |-> id,
                 title |-> saves[last].conversation.title,
                 created_at |->
                   from_timestamp(timestamp(saves[first].conversation.created_at)),
                 updated_at |->
                   from_timestamp(timestamp(saves[last].conversation.updated_at))]}

C30_Witness ==
  /\ Len(saves) = 3
  /\ Cardinality(SavesOf("c1")) = 2
  /\ Cardinality(SavesOf("c2")) = 1
  /\ \E i, j \in SavesOf("c1") :
       /\ i < j
       /\ saves[i].conversation.title # saves[j].conversation.title
       /\ saves[i].conversation.created_at # saves[j].conversation.created_at
       /\ saves[i].conversation.updated_at # saves[j].conversation.updated_at

---------------------------------------------------------------------------
(* Properties of the conversation store under concurrent requests          *)

\* The call that has just returned Ok, if the state is the one it left.
CallReturned(op) == lastOp.op = op /\ lastOp.ret = "Ok"

\* C31: in the state delete_conversations(id) leaves when it returns Ok,
\* the conversations table has no row with that id, the messages table has
\* no row with conversation_id = id, and get_conversation_with_messages(id)
\* fails with the no-rows error.
C31_DeleteLeavesNothing ==
  CallReturned("delete_conversations") =>
    /\ \A r \in rows : r.id # lastOp.arg
    /\ \A r \in msgs : r.conversation_id # lastOp.arg
    /\ get_conversation_with_messages(lastOp.arg)
         = [kind |-> "Err", err |-> RowNotFound]

\* A DateTime cut to whole seconds.
Truncated(dt) == DateTime(dt.secs, 0)

\* The conversation as list_conversations and
\* get_conversation_with_messages give it, without its messages.
ReadConversation(id) ==
  LET got == get_conversation_with_messages(id)
  IN  IF got.kind = "Err"
      THEN {}
      ELSE {c \in list_conversations :
              /\ c.id = id
              /\ c = [id |-> got.conversation.id,
                      title |-> got.conversation.title,
                      created_at |-> got.conversation.created_at,
                      updated_at |-> got.conversation.updated_at]}

\* The message with an id as get_conversation_with_messages gives it, asked
\* for the conversation the message was saved for.
ReadMessage(conversation_id, id) ==
  LET got == get_conversation_with_messages(conversation_id)
  IN  IF got.kind = "Err"
      THEN {}
      ELSE {m \in got.conversation.messages : m.id = id}

\* C32 as stated: a conversation or a message that has just been saved is
\* read back equal to the saved one with created_at and updated_at cut to
\* whole seconds.
C32_ReadBackEqualsSaved ==
  /\ CallReturned("save_conversation") =>
       ReadConversation(lastOp.arg.id)
         = {[lastOp.arg EXCEPT !.created_at = Truncated(@),
                               !.updated_at = Truncated(@)]}
  /\ CallReturned("save_message") =>
       ReadMessage(lastOp.arg.conversation_id, lastOp.arg.id)
         = {[lastOp.arg EXCEPT !.created_at = Truncated(@),
                               !.updated_at = Truncated(@)]}

\* A call of save_conversation or save_message is made in this step.
SaveStep(op) == nOps' = nOps + 1 /\ lastOp'.op = op

\* C32, amended: a save sets updated_at to the time service's time of the
\* save cut to whole seconds. A conversation is read back with the saved
\* title and that updated_at, and with the saved created_at cut to whole
\* seconds when its id was not stored, the stored created_at when it was.
\* A message is read back, through the conversation_id its row has and
\* when that conversation is stored, with the saved content and that
\* updated_at, and with the saved conversation_id and created_at (cut to
\* whole seconds) when its id was not stored, the stored ones when it was;
\* when that conversation is not stored the read fails with the no-rows
\* error.
C32_ReadBackAmended ==
  [][/\ SaveStep("save_conversation") =>
          LET a == lastOp'.arg
              old == {r \in rows : r.id = a.id}
          IN  /\ a.updated_at = Truncated(StoreClock)
              /\ \A id \in ConversationIds :
                   id = a.id =>
                     ReadConversation(id)'
                       = {[id |-> a.id, title |-> a.title,
                           created_at |->
                             IF old = {}
                             THEN Truncated(a.created_at)
                             ELSE from_timestamp(
                                    (CHOOSE r \in old : TRUE).created_at),
                           updated_at |-> a.updated_at]}
     /\ SaveStep("save_message") =>
          LET a == lastOp'.arg
              old == {r \in msgs : r.id = a.id}
              kept == IF old = {}
                      THEN [a EXCEPT !.created_at = Truncated(@)]
                      ELSE LET r == CHOOSE x \in old : TRUE
                           IN  [a EXCEPT !.conversation_id = r.conversation_id,
                                         !.created_at = from_timestamp(r.created_at)]
          IN  /\ a.updated_at = Truncated(StoreClock)
              /\ \A cid \in ConversationIds, id \in MessageIds :
                   (cid = kept.conversation_id /\ id = a.id) =>
                     IF \E r \in rows' : r.id = cid
                     THEN ReadMessage(cid, id)' = {kept}
                     ELSE get_conversation_with_messages(cid)'
                            = [kind |-> "Err", err |-> RowNotFound]
    ]_vars

\* A message saved again for another conversation, read through the stored
\* conversation it stays with.
C32_Witness ==
  /\ CallReturned("save_message")
  /\ \E r \in msgs :
       /\ r.id = lastOp.arg.id
       /\ r.conversation_id # lastOp.arg.conversation_id
       /\ r.content = lastOp.arg.content
       /\ r.created_at < r.updated_at
       /\ ReadMessage(r.conversation_id, r.id) # {}

\* C39: whatever the interleaving of save_message, delete_conversations and
\* delete_all_conversations, every stored message has the id of a stored
\* conversation as its conversation_id.
C39_NoOrphanMessages ==
  \A m \in msgs : \E r \in rows : r.id = m.conversation_id

---------------------------------------------------------------------------
(* Properties of the non-streaming request                                 *)

\* The handler's error for a channel that closed with no chunk.
AbruptlyClosed ==
  [kind |-> "InternalServer", status |-> 500,
   contentType |-> "application/json",
   body |-> <<"receiver stream abruptly closed">>]

\* C33: a non-streaming request gets one response, which is never replaced,
\* and gets it once its pipeline task has terminated. The response is 200
\* with the first chunk received, given after the receiver was closed and
\* the pipeline task finished, when a chunk got into the channel; it is the
\* InternalServer error `receiver stream abruptly closed` when every
\* sender was dropped with no chunk sent.
C33_NonStreamOneResponse ==
  /\ [](pc = "done" =>
          /\ response.kind = "ok" =>
               /\ response.status = 200
               /\ Len(received) = 1
               /\ message = received[1]
               /\ \E i \in 1..Len(sendTask) :
                    sendTask[i] = "sent" /\ emitted[i] = message
               /\ rx = "closed"
               /\ PipelineTerminated
          /\ response.kind # "ok" =>
               /\ response = AbruptlyClosed
               /\ received = <<>>
               /\ PipelineTerminated
               /\ emitted = <<>>)
  /\ [](response # NoResponse => pc = "done")
  /\ [][response # NoResponse => response' = response]_vars
  /\ PipelineTerminated ~> (pc = "done" /\ response # NoResponse)

\* The handler took the first chunk while the pipeline was still running,
\* waited for it and answered 200.
C33_Witness ==
  /\ ~stream
  /\ pc = "done"
  /\ response.kind = "ok"
  /\ pipeline.state = "err"
  /\ Len(emitted) >= 2
  /\ \E i \in 1..Len(sendTask) : sendTask[i] = "panicked"

---------------------------------------------------------------------------
(* Properties of the streaming request                                     *)

\* C34: the closure mapped over the stream never panics and every chunk
\* taken from the channel becomes one event, whatever the chunk: a chunk
\* with neither prefix is the event's data unchanged, and a chunk with the
\* `data: ` or `error: ` prefix gives an event whether or not it ends with
\* the blank line.
C34_EveryChunkIsAnEvent ==
  stream =>
    /\ sse # "panicked"
    /\ Len(events) = Len(received)
    /\ \A i \in 1..Len(received) :
         (~starts_with(received[i], DataPrefix)
            /\ ~starts_with(received[i], ErrorPrefix))
           => events[i] = received[i]

---------------------------------------------------------------------------
(* Properties of the server's shutdown                                     *)

\* C35: once start_new has returned Ok after a shutdown, the shared context
\* holds no engine and no engine instance is initializing or live: no
\* request served while or after the callback ran try_stop has left an
\* engine behind.
C35_NoEngineAfterShutdown ==
  srv = "ok" =>
    /\ ~has_model
    /\ LiveInstances = {}

C37_HandleOnlyWhenListening ==
  AexecuteResult = "Ok" =>
    /\ readyCount = 1
    /\ listener # "none"
    /\ srv # "err"

---------------------------------------------------------------------------
(* Properties of the interactive client's history                          *)

\* The messages alternate user, assistant, .., the k-th pair being turn k.
Alternates(h) ==
  \A i \in 1..Len(h) :
    h[i] = [role |-> IF i % 2 = 1 THEN "user" ELSE "assistant",
            turn |-> (i + 1) \div 2]

\* C38: whenever the client is idle its history alternates user,
\* assistant, .. and has even length, one pair per turn; and the request
\* of a turn carries the whole history as it is once the turn's user
\* message is pushed: the pairs of the earlier turns, then that message.
C38_HistoryAlternates ==
  /\ replPc = "idle" =>
       /\ Len(history) = 2 * turn
       /\ Alternates(history)
  /\ turn >= 1 =>
       /\ Len(request) = 2 * turn - 1
       /\ request = SubSeq(history, 1, Len(request))
       /\ Alternates(request)
       /\ request[Len(request)] = [role |-> "user", turn |-> turn]

\* The second turn is under way and the engine has emitted: the turn's
\* request carries the first pair and the new user message.
C38_Witness ==
  /\ replPc = "generating"
  /\ turn = 2
  /\ Len(request) = 3
  /\ request[2].role = "assistant"
  /\ Len(emitted) >= 1

====
